---- MODULE Spec2Model ----
(***************************************************************************)
(* Model of the search path of the Phone-Tracker server:                   *)
(*   GET /api/search (server.js), the query optimizer and its cache        *)
(*   (query-optimizer.js), the advanced filters (advanced-filters.js),     *)
(*   the fuzzy search and the geospatial search modules.                   *)
(*                                                                         *)
(* Representation of JavaScript values.                                    *)
(*   A string is a tuple of one-character strings: "70" is <<"7","0">>.    *)
(*   undefined is the tuple <<"undefined">> and SQL NULL the tuple         *)
(*   <<"NULL">>; neither is a string, since their element is not one       *)
(*   character.  A number produced by parseFloat is an integer count of    *)
(*   tenths (14.6 is 146); a number produced by parseInt is an integer.    *)
(*   NaN is the integer NaN below, tested explicitly wherever the code     *)
(*   tests falsiness or isNaN.                                             *)
(***************************************************************************)
EXTENDS Integers, Sequences, FiniteSets, TLC

\* ------------------------------------------------------------------------
\* Bounds of the model
\* ------------------------------------------------------------------------
\* number of search requests the clients send in one behaviour
MaxRequests == 2
\* the clock stops advancing at MaxTime seconds
MaxTime == 700
\* seconds added to the clock by one Tick
TickStep == 350
\* reports submitted in one run
MaxReports == 2

\* ------------------------------------------------------------------------
\* JavaScript values
\* ------------------------------------------------------------------------
undefined == <<"undefined">>
NULL == <<"NULL">>
NaN == 0 - 99999999
\* a latitude/longitude column holding SQL NULL
NullNum == 99999999

IsString(v) == v # undefined /\ v # NULL
\* truthiness of a string-or-undefined value: undefined and "" are falsy
Truthy(v) == v # undefined /\ v # NULL /\ v # <<>>

Digits == <<"0", "1", "2", "3", "4", "5", "6", "7", "8", "9">>
IsDigit(c) == \E i \in 1..10 : Digits[i] = c
DigitVal(c) == (CHOOSE i \in 1..10 : Digits[i] = c) - 1

\* the element of a set of one element: The({e(x) : x \in {v}}) is e(v) with
\* v worked out once
The(S) == CHOOSE x \in S : TRUE
Min(a, b) == The({IF x < y THEN x ELSE y : x \in {a}, y \in {b}})
Max(a, b) == The({IF x > y THEN x ELSE y : x \in {a}, y \in {b}})
Abs(a) == The({IF x < 0 THEN 0 - x ELSE x : x \in {a}})

LowerLetters == <<"a", "b", "c", "d", "e", "f", "g", "h", "i", "j", "k", "l", "m", "n", "o",
                  "p", "q", "r", "s", "t", "u", "v", "w", "x", "y", "z">>
UpperLetters == <<"A", "B", "C", "D", "E", "F", "G", "H", "I", "J", "K", "L", "M", "N", "O",
                  "P", "Q", "R", "S", "T", "U", "V", "W", "X", "Y", "Z">>
UpperSet == {UpperLetters[i] : i \in 1..26}
LowerSet == {LowerLetters[i] : i \in 1..26}
IsUpper(c) == c \in UpperSet
IsLower(c) == c \in LowerSet
\* the lower-case letter of each upper-case letter, and conversely
LowerOf == [c \in UpperSet |-> LowerLetters[CHOOSE i \in 1..26 : UpperLetters[i] = c]]
UpperOf == [c \in LowerSet |-> UpperLetters[CHOOSE i \in 1..26 : LowerLetters[i] = c]]
\* String.prototype.toLowerCase and toUpperCase
LowerChar(c) == IF IsUpper(c) THEN LowerOf[c] ELSE c
toLowerCase(s) == [i \in 1..Len(s) |-> LowerChar(s[i])]
UpperChar(c) == IF IsLower(c) THEN UpperOf[c] ELSE c
toUpperCase(s) == [i \in 1..Len(s) |-> UpperChar(s[i])]

\* String.prototype.trim
trim(s) ==
  LET nonSpace == {i \in 1..Len(s) : s[i] # " "}
  IN IF nonSpace = {} THEN <<>>
     ELSE LET lo == CHOOSE i \in nonSpace : \A j \in nonSpace : i <= j
              hi == CHOOSE i \in nonSpace : \A j \in nonSpace : i >= j
          IN SubSeq(s, lo, hi)

\* String.prototype.includes
includes(s, sub) ==
  \E i \in 0..(Len(s) - Len(sub)) : SubSeq(s, i + 1, i + Len(sub)) = sub

\* String.prototype.split(',')
RECURSIVE split(_)
split(s) ==
  LET commas == {i \in 1..Len(s) : s[i] = ","}
  IN IF commas = {} THEN <<s>>
     ELSE LET k == CHOOSE i \in commas : \A j \in commas : i <= j
          IN <<SubSeq(s, 1, k - 1)>> \o split(SubSeq(s, k + 1, Len(s)))

\* Array.prototype.join(sep) for an array of strings
RECURSIVE join(_, _)
join(parts, sep) ==
  IF Len(parts) = 0 THEN <<>>
  ELSE IF Len(parts) = 1 THEN parts[1]
  ELSE The({parts[1] \o sep \o join(rest, sep) : rest \in {Tail(parts)}})

\* value of the longest prefix of digits of s, and the length of that prefix
RECURSIVE DigitPrefixLen(_)
DigitPrefixLen(s) ==
  IF Len(s) = 0 \/ ~IsDigit(s[1]) THEN 0 ELSE The({1 + DigitPrefixLen(t) : t \in {Tail(s)}})
RECURSIVE DigitsValue(_)
DigitsValue(s) ==
  IF Len(s) = 0 THEN 0
  ELSE The({10 * DigitsValue(t) + DigitVal(s[Len(s)]) : t \in {SubSeq(s, 1, Len(s) - 1)}})

\* whether the trimmed string t starts with a minus sign, and t without its sign
IsNegative(t) == Len(t) > 0 /\ t[1] = "-"
Unsigned(t) == IF Len(t) > 0 /\ (t[1] = "-" \/ t[1] = "+") THEN Tail(t) ELSE t
\* the number x with the sign the string carried; NaN stays NaN
Signed(neg, x) == The({IF y = NaN THEN NaN ELSE IF neg THEN 0 - y ELSE y : y \in {x}})
\* n || d for a number n
NumOr(n, d) == The({IF m = NaN \/ m = 0 THEN d ELSE m : m \in {n}})

\* the integer the n leading digits of body denote; NaN when there is none
ParseIntDigits(body, n) == IF n = 0 THEN NaN ELSE DigitsValue(SubSeq(body, 1, n))
\* parseInt(v): leading white space, optional sign, then the digits up to the
\* first other character; NaN when there is no digit (or v is not a string)
ParseIntTrimmed(t) ==
  The({Signed(IsNegative(t), ParseIntDigits(body, DigitPrefixLen(body))) : body \in {Unsigned(t)}})
parseInt(v) == IF ~IsString(v) THEN NaN ELSE The({ParseIntTrimmed(t) : t \in {trim(v)}})

\* the number, in tenths, that body denotes: its n leading digits and an
\* optional fraction of which the first digit is kept (the inputs of the
\* model carry at most one)
ParseFloatDigits(body, n) ==
  LET hasFrac == Len(body) >= n + 2 /\ body[n + 1] = "." /\ IsDigit(body[n + 2])
  IN IF n = 0 /\ ~hasFrac THEN NaN
     ELSE IF hasFrac THEN DigitsValue(SubSeq(body, 1, n)) * 10 + DigitVal(body[n + 2])
     ELSE DigitsValue(SubSeq(body, 1, n)) * 10
\* parseFloat(v) in tenths: as parseInt, with the fraction
ParseFloatTrimmed(t) ==
  The({Signed(IsNegative(t), ParseFloatDigits(body, DigitPrefixLen(body))) :
         body \in {Unsigned(t)}})
parseFloat(v) == IF ~IsString(v) THEN NaN ELSE The({ParseFloatTrimmed(t) : t \in {trim(v)}})

\* String(n) of a non-negative integer
RECURSIVE NatToStr(_)
NatToStr(n) ==
  IF n < 10 THEN <<Digits[n + 1]>> ELSE NatToStr(n \div 10) \o <<Digits[(n % 10) + 1]>>
\* String(n) of an integer
IntToStr(n) == IF n < 0 THEN <<"-">> \o NatToStr(0 - n) ELSE NatToStr(n)
\* String(x) of a number held in tenths
TenthsToStr(x) ==
  LET m == Abs(x)
      body == IF m % 10 = 0 THEN NatToStr(m \div 10)
              ELSE NatToStr(m \div 10) \o <<".">> \o <<Digits[(m % 10) + 1]>>
  IN IF x < 0 THEN <<"-">> \o body ELSE body

\* ------------------------------------------------------------------------
\* A value that is a string (or undefined) until the code replaces it by a
\* number: k = "str" (s holds it), "int" (n holds it) or "tenths" (n holds it)
\* ------------------------------------------------------------------------
Str(s) == [k |-> "str", s |-> s, n |-> 0]
NumI(n) == [k |-> "int", s |-> <<>>, n |-> n]
NumT(n) == [k |-> "tenths", s |-> <<>>, n |-> n]
JsTruthy(v) == IF v.k = "str" THEN Truthy(v.s) ELSE v.n # 0 /\ v.n # NaN
\* String(v), as Array.prototype.join applies it to a key part
JsToStr(v) ==
  CASE v.k = "str" -> v.s
    [] v.k = "int" -> IntToStr(v.n)
    [] OTHER -> TenthsToStr(v.n)
\* v || d
OrElse(v, d) == IF JsTruthy(v) THEN v ELSE d

\* ------------------------------------------------------------------------
\* query-optimizer.js
\* ------------------------------------------------------------------------
\* stdTTL of the NodeCache instance and default ttl of cacheResults, seconds
stdTTL == 600

\* the literals of generateCacheKey
kSearch == <<"s", "e", "a", "r", "c", "h">>
kNoQuery == <<"n", "o", "-", "q", "u", "e", "r", "y">>
kAll == <<"a", "l", "l">>
kNoCountry == <<"n", "o", "-", "c", "o", "u", "n", "t", "r", "y">>
kNoRegion == <<"n", "o", "-", "r", "e", "g", "i", "o", "n">>
kNoCity == <<"n", "o", "-", "c", "i", "t", "y">>
kFalse == <<"f", "a", "l", "s", "e">>
kTrue == <<"t", "r", "u", "e">>
k70 == <<"7", "0">>
kNoLat == <<"n", "o", "-", "l", "a", "t">>
kNoLon == <<"n", "o", "-", "l", "o", "n">>
k10 == <<"1", "0">>
k1 == <<"1">>
k50 == <<"5", "0">>

\* the test of optimizeSearchParams on the parsed coordinates, in tenths
ValidCoords(lat, lon) ==
  /\ lat # NaN /\ lon # NaN
  /\ lat >= 0 - 900 /\ lat <= 900
  /\ lon >= 0 - 1800 /\ lon <= 1800

\* optimizeSearchParams(params): params is req.query; the result has the
\* same fields, threshold and radius being Str/NumI/NumT values
optimizeSearchParams(params) ==
  LET dropCoords == /\ Truthy(params.lat) /\ Truthy(params.lon)
                    /\ ~ValidCoords(parseFloat(params.lat), parseFloat(params.lon))
  IN [params EXCEPT
        !.query = IF Truthy(@) THEN toLowerCase(trim(@)) ELSE @,
        !.threshold = IF Truthy(@)
                      THEN NumI(Min(100, Max(0, NumOr(parseInt(@), 70))))
                      ELSE Str(@),
        !.radius = IF Truthy(@)
                   THEN NumT(Min(10000, Max(1, NumOr(parseFloat(@), 100))))
                   ELSE Str(@),
        !.lat = IF dropCoords THEN undefined ELSE @,
        !.lon = IF dropCoords THEN undefined ELSE @]

\* generateCacheKey(params) for the params optimizeSearchParams returns
generateCacheKey(params) ==
  LET keyParts == <<
        JsToStr(OrElse(Str(params.query), Str(kNoQuery))),
        JsToStr(OrElse(Str(params.type), Str(kAll))),
        JsToStr(OrElse(Str(params.country), Str(kNoCountry))),
        JsToStr(OrElse(Str(params.region), Str(kNoRegion))),
        JsToStr(OrElse(Str(params.city), Str(kNoCity))),
        JsToStr(OrElse(Str(params.fuzzy), Str(kFalse))),
        JsToStr(OrElse(params.threshold, Str(k70))),
        JsToStr(OrElse(Str(params.phonetic), Str(kFalse))),
        JsToStr(OrElse(Str(params.lat), Str(kNoLat))),
        JsToStr(OrElse(Str(params.lon), Str(kNoLon))),
        JsToStr(OrElse(params.radius, Str(k10))),
        JsToStr(OrElse(Str(params.page), Str(k1))),
        JsToStr(OrElse(Str(params.limit), Str(k50))) >>
  IN The({kSearch \o <<":">> \o join(parts, <<":">>) : parts \in {keyParts}})

\* validatePaginationParams(page, limit)
validatePaginationParams(page, limit) ==
  [page |-> Max(1, NumOr(parseInt(page), 1)),
   limit |-> Min(100, Max(1, NumOr(parseInt(limit), 50)))]

\* Math.ceil(a / b) for a >= 0, b > 0
CeilDiv(a, b) == (a + b - 1) \div b

\* Array.prototype.slice(from, to) with 0 <= from
slice(arr, from, to) == SubSeq(arr, from + 1, Min(to, Len(arr)))

\* paginateResults without the upper clamp of the page
paginateResults_noUpperClamp(results, page, limit) ==
  LET totalItems == Len(results)
      totalPages == CeilDiv(totalItems, limit)
      currentPage == Max(1, page)
      offset == (currentPage - 1) * limit
  IN [data |-> slice(results, offset, offset + limit),
      pagination |->
        [current_page |-> currentPage,
         total_pages |-> totalPages,
         total_items |-> totalItems,
         items_per_page |-> limit,
         has_next |-> currentPage < totalPages,
         has_previous |-> currentPage > 1,
         next_page |-> IF currentPage < totalPages THEN currentPage + 1 ELSE 0,
         previous_page |-> IF currentPage > 1 THEN currentPage - 1 ELSE 0]]
\* paginateResults(results, page, limit); null is the page number 0
paginateResults(results, page, limit) ==
  LET totalItems == Len(results)
      totalPages == CeilDiv(totalItems, limit)
      currentPage == Max(1, Min(page, totalPages))
      offset == (currentPage - 1) * limit
  IN [data |-> slice(results, offset, offset + limit),
      pagination |->
        [current_page |-> currentPage,
         total_pages |-> totalPages,
         total_items |-> totalItems,
         items_per_page |-> limit,
         has_next |-> currentPage < totalPages,
         has_previous |-> currentPage > 1,
         next_page |-> IF currentPage < totalPages THEN currentPage + 1 ELSE 0,
         previous_page |-> IF currentPage > 1 THEN currentPage - 1 ELSE 0]]

\* createPerformanceMetrics(startTime, resultCount, fromCache) at time endTime
createPerformanceMetrics(startTime, resultCount, fromCache, endTime) ==
  [execution_time_ms |-> (endTime - startTime) * 1000,
   result_count |-> resultCount,
   from_cache |-> fromCache]

\* NodeCache: an entry is [v |-> value, t |-> expiry time]; it is expired
\* once its expiry time lies before the clock
Expired(entry, clock) == entry.t < clock
\* NodeCache.get: whether the key is a hit
CacheHas(cache, key, clock) == key \in DOMAIN cache /\ ~Expired(cache[key], clock)
\* NodeCache.get deletes the entry it finds expired
CacheAfterGet(cache, key, clock) ==
  IF key \in DOMAIN cache /\ Expired(cache[key], clock)
  THEN [k \in DOMAIN cache \ {key} |-> cache[k]]
  ELSE cache
\* NodeCache.set(key, value, ttl)
CacheSet(cache, key, value, ttl, clock) ==
  The({[k \in DOMAIN cache \cup {theKey} |->
          IF k = theKey THEN [v |-> theValue, t |-> clock + ttl] ELSE cache[k]] :
         theKey \in {key}, theValue \in {value}})

\* searchCache.get(cacheKey): the value found, if any, and the cache after
\* the call
CacheGet(cache, cacheKey, clock) ==
  [hit |-> CacheHas(cache, cacheKey, clock),
   value |-> IF CacheHas(cache, cacheKey, clock) THEN cache[cacheKey].v ELSE <<>>,
   cache |-> CacheAfterGet(cache, cacheKey, clock)]
\* getCachedResults(params): the cache key looked up
getCachedResults(cache, params, clock) == CacheGet(cache, generateCacheKey(params), clock)

\* cacheResults with a ttl of one minute
cacheResults_ttl60(cache, params, results, clock) ==
  CacheSet(cache, generateCacheKey(params), results, 60, clock)
\* cacheResults(params, results, ttl = 600)
cacheResults(cache, params, results, clock) ==
  CacheSet(cache, generateCacheKey(params), results, stdTTL, clock)

\* ------------------------------------------------------------------------
\* Dates.  The clock counts seconds from the start of the model's run, which
\* is 2026-11-06T00:00:00Z; the server runs in UTC.  The date strings Date
\* parses in the model are "YYYY", "YYYY-MM-DD" and "YYYY-MM-DD HH:MM:SS"; any
\* other string of the model is an Invalid Date (NaN).
\* ------------------------------------------------------------------------
EpochYear == 2026
\* days from January 1st of EpochYear to the start of the run
EpochDay == 309

AllDigits(s) == \A i \in 1..Len(s) : IsDigit(s[i])
IsLeap(y) == (y % 4 = 0 /\ y % 100 # 0) \/ y % 400 = 0
LeapsBefore(y) == ((y - 1) \div 4) - ((y - 1) \div 100) + ((y - 1) \div 400)
DaysBeforeMonth == <<0, 31, 59, 90, 120, 151, 181, 212, 243, 273, 304, 334>>
DaysInMonth(y, m) ==
  IF m = 2 THEN (IF IsLeap(y) THEN 29 ELSE 28)
  ELSE IF m \in {4, 6, 9, 11} THEN 30 ELSE 31
\* days from the start of the run to the day y-m-d
DayNumber(y, m, d) ==
  365 * (y - EpochYear) + LeapsBefore(y) - LeapsBefore(EpochYear)
  + DaysBeforeMonth[m] + (IF IsLeap(y) /\ m > 2 THEN 1 ELSE 0) + (d - 1) - EpochDay

IsYear(s) == Len(s) = 4 /\ AllDigits(s)
IsDate(s) ==
  /\ Len(s) = 10 /\ s[5] = "-" /\ s[8] = "-"
  /\ AllDigits(SubSeq(s, 1, 4)) /\ AllDigits(SubSeq(s, 6, 7)) /\ AllDigits(SubSeq(s, 9, 10))
  /\ DigitsValue(SubSeq(s, 6, 7)) \in 1..12
  /\ DigitsValue(SubSeq(s, 9, 10)) \in
       1..DaysInMonth(DigitsValue(SubSeq(s, 1, 4)), DigitsValue(SubSeq(s, 6, 7)))
IsDateTime(s) ==
  /\ Len(s) = 19 /\ IsDate(SubSeq(s, 1, 10)) /\ s[11] = " " /\ s[14] = ":" /\ s[17] = ":"
  /\ AllDigits(SubSeq(s, 12, 13)) /\ AllDigits(SubSeq(s, 15, 16))
  /\ AllDigits(SubSeq(s, 18, 19))
  /\ DigitsValue(SubSeq(s, 12, 13)) < 24 /\ DigitsValue(SubSeq(s, 15, 16)) < 60
  /\ DigitsValue(SubSeq(s, 18, 19)) < 60
DateSeconds(s) ==
  DayNumber(DigitsValue(SubSeq(s, 1, 4)), DigitsValue(SubSeq(s, 6, 7)),
            DigitsValue(SubSeq(s, 9, 10))) * 86400
\* new Date(s).getTime(), in clock seconds
DateOf(s) ==
  IF ~IsString(s) THEN NaN
  ELSE IF IsYear(s) THEN DayNumber(DigitsValue(s), 1, 1) * 86400
  ELSE IF IsDate(s) THEN DateSeconds(s)
  ELSE IF IsDateTime(s)
  THEN DateSeconds(s) + DigitsValue(SubSeq(s, 12, 13)) * 3600
       + DigitsValue(SubSeq(s, 15, 16)) * 60 + DigitsValue(SubSeq(s, 18, 19))
  ELSE NaN

\* the characters of the model in code-unit order, for string comparison
CharOrder == <<" ", ",", "-", ".">> \o Digits \o <<":", "@">> \o UpperLetters
             \o <<"_">> \o LowerLetters
CharRankOf == [c \in {CharOrder[i] : i \in 1..Len(CharOrder)} |->
                 CHOOSE i \in 1..Len(CharOrder) : CharOrder[i] = c]
CharRank(c) == CharRankOf[c]
\* a < b for two strings, compared code unit by code unit
RECURSIVE StrLess(_, _)
StrLess(a, b) ==
  IF Len(b) = 0 THEN FALSE
  ELSE IF Len(a) = 0 THEN TRUE
  ELSE IF a[1] = b[1] THEN StrLess(Tail(a), Tail(b))
  ELSE CharRank(a[1]) < CharRank(b[1])

\* ------------------------------------------------------------------------
\* advanced-filters.js
\* ------------------------------------------------------------------------
sLost == <<"l", "o", "s", "t">>
sFound == <<"f", "o", "u", "n", "d">>
sReturned == <<"r", "e", "t", "u", "r", "n", "e", "d">>
sClaimed == <<"c", "l", "a", "i", "m", "e", "d">>
sSmartphone == <<"s", "m", "a", "r", "t", "p", "h", "o", "n", "e">>
sTablet == <<"t", "a", "b", "l", "e", "t">>
sLaptop == <<"l", "a", "p", "t", "o", "p">>
sSmartwatch == <<"s", "m", "a", "r", "t", "w", "a", "t", "c", "h">>
sEarbuds == <<"e", "a", "r", "b", "u", "d", "s">>
sOther == <<"o", "t", "h", "e", "r">>
sApple == <<"a", "p", "p", "l", "e">>
sSamsung == <<"s", "a", "m", "s", "u", "n", "g">>
sHuawei == <<"h", "u", "a", "w", "e", "i">>
sXiaomi == <<"x", "i", "a", "o", "m", "i">>
sOppo == <<"o", "p", "p", "o">>
sVivo == <<"v", "i", "v", "o">>
sOneplus == <<"o", "n", "e", "p", "l", "u", "s">>
sGoogle == <<"g", "o", "o", "g", "l", "e">>
sSony == <<"s", "o", "n", "y">>
sLg == <<"l", "g">>
sToday == <<"t", "o", "d", "a", "y">>
sYesterday == <<"y", "e", "s", "t", "e", "r", "d", "a", "y">>
sLastWeek == <<"l", "a", "s", "t", "_", "w", "e", "e", "k">>
sLastMonth == <<"l", "a", "s", "t", "_", "m", "o", "n", "t", "h">>
sLast3Months == <<"l", "a", "s", "t", "_", "3", "_", "m", "o", "n", "t", "h", "s">>
sLast6Months == <<"l", "a", "s", "t", "_", "6", "_", "m", "o", "n", "t", "h", "s">>
sLastYear == <<"l", "a", "s", "t", "_", "y", "e", "a", "r">>

\* this.filterCategories
filterCategories ==
  [status |-> {sLost, sFound, sReturned, sClaimed},
   deviceType |-> {sSmartphone, sTablet, sLaptop, sSmartwatch, sEarbuds, sOther},
   brands |-> {sApple, sSamsung, sHuawei, sXiaomi, sOppo, sVivo, sOneplus, sGoogle,
               sSony, sLg, sOther},
   timeRanges |-> {sToday, sYesterday, sLastWeek, sLastMonth, sLast3Months,
                   sLast6Months, sLastYear}]

\* cutoffDate.toISOString().split('T')[0] for a named time range; the clock
\* of the model stays within 2026-11-06
CutoffDate(timeRange) ==
  CASE timeRange = sToday -> <<"2", "0", "2", "6", "-", "1", "1", "-", "0", "6">>
    [] timeRange = sYesterday -> <<"2", "0", "2", "6", "-", "1", "1", "-", "0", "5">>
    [] timeRange = sLastWeek -> <<"2", "0", "2", "6", "-", "1", "0", "-", "3", "0">>
    [] timeRange = sLastMonth -> <<"2", "0", "2", "6", "-", "1", "0", "-", "0", "7">>
    [] timeRange = sLast3Months -> <<"2", "0", "2", "6", "-", "0", "8", "-", "0", "8">>
    [] timeRange = sLast6Months -> <<"2", "0", "2", "6", "-", "0", "5", "-", "1", "0">>
    [] OTHER -> <<"2", "0", "2", "5", "-", "1", "1", "-", "0", "6">>

Range(seq) == {seq[i] : i \in 1..Len(seq)}

\* the two messages of validateFilters and the head of the third
errDateOrder == "Date from cannot be later than date to"
errDateFuture == "Date from cannot be in the future"
errStatus == "Invalid status values"

\* the errors of validateFilters about the two dates, both being given
dateErrors(fromDate, toDate, clock) ==
  (IF fromDate # NaN /\ toDate # NaN /\ fromDate > toDate
   THEN <<[msg |-> errDateOrder, values |-> <<>>]>> ELSE <<>>)
  \o (IF fromDate # NaN /\ fromDate > clock
      THEN <<[msg |-> errDateFuture, values |-> <<>>]>> ELSE <<>>)
\* its error about the status values that are not in filterCategories.status
statusErrors(invalidStatuses) ==
  IF Len(invalidStatuses) > 0
  THEN <<[msg |-> errStatus, values |-> invalidStatuses]>> ELSE <<>>
\* {isValid: errors.length === 0, errors}
validationOf(errors) == [isValid |-> Len(errors) = 0, errors |-> errors]

\* validateFilters(filters) at time clock: an error is [msg, values]
validateFilters(filters, clock) ==
  LET IsInvalid(st) == toLowerCase(st) \notin filterCategories.status
  IN validationOf(
       (IF Truthy(filters.dateFrom) /\ Truthy(filters.dateTo)
        THEN dateErrors(DateOf(filters.dateFrom), DateOf(filters.dateTo), clock)
        ELSE <<>>)
       \o statusErrors(SelectSeq(filters.status, IsInvalid)))

\* generateFilterSummary(filters)
FilterKeys == <<"dateFrom", "dateTo", "timeRange", "status", "deviceType", "brand",
                "country", "region", "city", "imei", "phoneNumber">>
ArrayKeys == {"status", "deviceType", "brand"}
\* a filter value that is neither falsy nor an empty array
FilterActive(filters, key) ==
  IF key \in ArrayKeys THEN Len(filters[key]) > 0 ELSE Truthy(filters[key])
generateFilterSummary(filters) ==
  LET IsActive(key) == FilterActive(filters, key)
      filterTypes == SelectSeq(FilterKeys, IsActive)
      activeFilters == Len(filterTypes)
  IN [activeFilters |-> activeFilters,
      filterTypes |-> filterTypes,
      complexity |-> IF activeFilters > 5 THEN "complex"
                     ELSE IF activeFilters > 2 THEN "moderate" ELSE "simple"]

\* an ORDER BY term
Asc(col) == [col |-> col, desc |-> FALSE]
Desc(col) == [col |-> col, desc |-> TRUE]

\* optimizeOrderBy(orderBy, filters)
optimizeOrderBy(orderBy, filters) ==
  IF Truthy(filters.dateFrom) \/ Truthy(filters.dateTo) \/ Truthy(filters.timeRange)
  THEN <<Desc("created_at"), Desc("id")>>
  ELSE IF Truthy(filters.country) \/ Truthy(filters.region) \/ Truthy(filters.city)
  THEN <<Asc("country"), Asc("region_state"), Asc("city"), Desc("created_at")>>
  ELSE orderBy

\* ------------------------------------------------------------------------
\* SQL conditions.  A condition of a WHERE clause, with its bound parameters,
\* is the record [op, col, arg, kids]:
\*   like     col LIKE '%arg%'        notnull  col IS NOT NULL
\*   ge, le   col >= arg, col <= arg  in       col IN (arg[1], ..)
\*   bbox     latitude BETWEEN arg.minLat AND arg.maxLat AND
\*            longitude BETWEEN arg.minLon AND arg.maxLon
\*   true     1=1                     and, or  of the conditions kids
\* ------------------------------------------------------------------------
Like(col, pat) == [op |-> "like", col |-> col, arg |-> pat, kids |-> <<>>]
NotNull(col) == [op |-> "notnull", col |-> col, arg |-> <<>>, kids |-> <<>>]
Ge(col, v) == [op |-> "ge", col |-> col, arg |-> v, kids |-> <<>>]
Le(col, v) == [op |-> "le", col |-> col, arg |-> v, kids |-> <<>>]
In(col, vals) == [op |-> "in", col |-> col, arg |-> vals, kids |-> <<>>]
BBox(box) == [op |-> "bbox", col |-> "latitude", arg |-> box, kids |-> <<>>]
True1 == [op |-> "true", col |-> "", arg |-> <<>>, kids |-> <<>>]
And(kids) == [op |-> "and", col |-> "", arg |-> <<>>, kids |-> kids]
Or(kids) == [op |-> "or", col |-> "", arg |-> <<>>, kids |-> kids]

\* buildDateRangeCondition(filters): the conditions it joins with AND
buildDateRangeCondition(filters) ==
  IF Truthy(filters.timeRange) /\ filters.timeRange \in filterCategories.timeRanges
  THEN <<Ge("created_at", CutoffDate(filters.timeRange))>>
  ELSE (IF Truthy(filters.dateFrom) THEN <<Ge("created_at", filters.dateFrom)>> ELSE <<>>)
       \o (IF Truthy(filters.dateTo) THEN <<Le("created_at", filters.dateTo)>> ELSE <<>>)

\* buildStatusCondition passing every supplied status on
buildStatusCondition_unfiltered(statusArray) ==
  IF Len(statusArray) = 0 THEN True1 ELSE In("status", statusArray)
\* buildStatusCondition(statusArray)
buildStatusCondition(statusArray) ==
  LET IsValid(st) == toLowerCase(st) \in filterCategories.status
      validStatuses == SelectSeq(statusArray, IsValid)
  IN IF Len(validStatuses) = 0 THEN True1 ELSE In("status", validStatuses)

\* buildDeviceTypeCondition(deviceTypes)
buildDeviceTypeCondition(deviceTypes) ==
  LET IsValid(ty) == toLowerCase(ty) \in filterCategories.deviceType
      validTypes == SelectSeq(deviceTypes, IsValid)
  IN IF Len(validTypes) = 0 THEN True1
     ELSE Or([i \in 1..Len(validTypes) |-> Like("device_type", validTypes[i])])

\* buildBrandCondition(brands)
buildBrandCondition(brands) ==
  LET IsValid(b) == toLowerCase(b) \in filterCategories.brands
      validBrands == SelectSeq(brands, IsValid)
  IN IF Len(validBrands) = 0 THEN True1
     ELSE Or([i \in 1..Len(validBrands) |-> Like("brand", validBrands[i])])

\* buildLocationCondition(filters)
buildLocationCondition(filters) ==
  LET conditions ==
        (IF Truthy(filters.country) THEN <<Like("country", filters.country)>> ELSE <<>>)
        \o (IF Truthy(filters.region) THEN <<Like("region_state", filters.region)>> ELSE <<>>)
        \o (IF Truthy(filters.city) THEN <<Like("city", filters.city)>> ELSE <<>>)
  IN IF Len(conditions) > 0 THEN And(conditions) ELSE True1

\* buildFilterConditions(filters): the conditions of its whereClause, which
\* is empty when there is none
buildFilterConditions(filters) ==
  LET dateConds == buildDateRangeCondition(filters)
  IN (IF (Truthy(filters.dateFrom) \/ Truthy(filters.dateTo) \/ Truthy(filters.timeRange))
         /\ Len(dateConds) > 0
      THEN <<And(dateConds)>> ELSE <<>>)
     \o (IF Len(filters.status) > 0 THEN <<buildStatusCondition(filters.status)>> ELSE <<>>)
     \o (IF Len(filters.deviceType) > 0
         THEN <<buildDeviceTypeCondition(filters.deviceType)>> ELSE <<>>)
     \o (IF Len(filters.brand) > 0 THEN <<buildBrandCondition(filters.brand)>> ELSE <<>>)
     \o (IF Truthy(filters.country) \/ Truthy(filters.region) \/ Truthy(filters.city)
         THEN <<buildLocationCondition(filters)>> ELSE <<>>)
     \o (IF Truthy(filters.imei) THEN <<Like("imei", filters.imei)>> ELSE <<>>)
     \o (IF Truthy(filters.phoneNumber)
         THEN <<Like("phone_number", filters.phoneNumber)>> ELSE <<>>)

\* ------------------------------------------------------------------------
\* fuzzy-search.js
\* ------------------------------------------------------------------------
Min3(a, b, c) == Min(a, Min(b, c))

\* row i of the matrix of levenshteinDistance, filled from column j on: prev
\* is row i - 1 and row the columns 0..j-1 of row i (column j at index j + 1),
\* so that Len(row) = j
RECURSIVE MatrixRow(_, _, _, _, _, _)
MatrixRow(str1, str2, i, j, prev, row) ==
  IF Len(row) > Len(str2) THEN row
  ELSE MatrixRow(str1, str2, i, j + 1, prev,
                 Append(row, IF str1[i] = str2[j] THEN prev[j]
                             ELSE Min3(prev[j] + 1, row[j] + 1, prev[j + 1] + 1)))
\* the last row of the matrix, given row i - 1
RECURSIVE MatrixRows(_, _, _, _)
MatrixRows(str1, str2, i, prev) ==
  IF i > Len(str1) THEN prev
  ELSE MatrixRows(str1, str2, i + 1, MatrixRow(str1, str2, i, 1, prev, <<i>>))

\* levenshteinDistance(str1, str2); either may be NULL or undefined
levenshteinDistance(str1, str2) ==
  IF ~Truthy(str1) \/ ~Truthy(str2)
  THEN Max(IF IsString(str1) THEN Len(str1) ELSE 0, IF IsString(str2) THEN Len(str2) ELSE 0)
  ELSE MatrixRows(str1, str2, 1, [j \in 1..(Len(str2) + 1) |-> j - 1])[Len(str2) + 1]

\* one percent of similarity; a similarity is held in ten-thousandths of a percent,
\* which orders the quotients of the model's string lengths as the code's
\* floating point does
Percent == 10000

\* calculateSimilarity(str1, str2)
calculateSimilarity(str1, str2) ==
  IF ~Truthy(str1) \/ ~Truthy(str2) THEN 0
  ELSE LET maxLength == Max(Len(str1), Len(str2))
           distance == levenshteinDistance(toLowerCase(str1), toLowerCase(str2))
       IN IF maxLength = 0 THEN 100 * Percent
          ELSE ((maxLength - distance) * 100 * Percent) \div maxLength

\* isFuzzyMatch(str1, str2, threshold)
isFuzzyMatch(str1, str2, threshold) == calculateSimilarity(str1, str2) >= threshold * Percent

\* normalizePhoneNumber(phoneNumber): the digits of the number
normalizePhoneNumber(phoneNumber) ==
  IF ~Truthy(phoneNumber) THEN <<>> ELSE SelectSeq(phoneNumber, IsDigit)

\* isPhoneSimilar admitting a similarity above the threshold only
isPhoneSimilar_strict(phone1, phone2, threshold) ==
  LET norm1 == normalizePhoneNumber(phone1)
      norm2 == normalizePhoneNumber(phone2)
  IN \/ norm1 = norm2
     \/ /\ includes(norm1, norm2) \/ includes(norm2, norm1)
        /\ Min(Len(norm1), Len(norm2)) >= 7
     \/ calculateSimilarity(norm1, norm2) > threshold * Percent
\* isPhoneSimilar(phone1, phone2, threshold)
isPhoneSimilar(phone1, phone2, threshold) ==
  LET norm1 == normalizePhoneNumber(phone1)
      norm2 == normalizePhoneNumber(phone2)
  IN \/ norm1 = norm2
     \/ /\ includes(norm1, norm2) \/ includes(norm2, norm1)
        /\ Min(Len(norm1), Len(norm2)) >= 7
     \/ calculateSimilarity(norm1, norm2) >= threshold * Percent

\* normalizeIMEI(imei): white space and dashes removed, upper case
normalizeIMEI(imei) ==
  LET Kept(c) == c # " " /\ c # "-"
  IN IF ~Truthy(imei) THEN <<>> ELSE toUpperCase(SelectSeq(imei, Kept))

\* isIMEISimilar(imei1, imei2, threshold)
isIMEISimilar(imei1, imei2, threshold) ==
  LET norm1 == normalizeIMEI(imei1)
      norm2 == normalizeIMEI(imei2)
  IN \/ norm1 = norm2
     \/ calculateSimilarity(norm1, norm2) >= threshold * Percent

\* Soundex mapping; "0" for a letter without a code
SoundexCode(c) ==
  CASE c \in {"B", "F", "P", "V"} -> "1"
    [] c \in {"C", "G", "J", "K", "Q", "S", "X", "Z"} -> "2"
    [] c \in {"D", "T"} -> "3"
    [] c = "L" -> "4"
    [] c \in {"M", "N"} -> "5"
    [] c = "R" -> "6"
    [] OTHER -> "0"

\* the loop of soundex: the code built from str[i..] given the code so far
RECURSIVE SoundexLoop(_, _, _, _)
SoundexLoop(str, i, soundexCode, prevCode) ==
  IF i > Len(str) \/ Len(soundexCode) >= 4 THEN soundexCode
  ELSE LET currentCode == SoundexCode(str[i])
       IN SoundexLoop(str, i + 1,
                      IF currentCode # "0" /\ currentCode # prevCode
                      THEN soundexCode \o <<currentCode>> ELSE soundexCode,
                      IF currentCode # "0" THEN currentCode ELSE prevCode)

\* String.prototype.padEnd(4, '0')
padEnd4(s) == s \o [i \in 1..(4 - Len(s)) |-> "0"]

\* soundex(str)
soundex(str) ==
  IF ~Truthy(str) THEN <<>>
  ELSE LET letters == SelectSeq(toUpperCase(str), IsUpper)
       IN IF Len(letters) = 0 THEN <<>>
          ELSE padEnd4(SoundexLoop(letters, 2, <<letters[1]>>, SoundexCode(letters[1])))

\* the index of the first character of s at or after j that is not a space
RECURSIVE SkipSpaces(_, _)
SkipSpaces(s, j) == IF j <= Len(s) /\ s[j] = " " THEN SkipSpaces(s, j + 1) ELSE j

\* String.prototype.split(/\s+/), the white space of the model being " ".
\* A run of spaces separates two words; a leading or trailing run yields an
\* empty word.
RECURSIVE splitWords(_)
splitWords(s) ==
  LET spaces == {i \in 1..Len(s) : s[i] = " "}
  IN IF spaces = {} THEN <<s>>
     ELSE LET k == CHOOSE i \in spaces : \A j \in spaces : i <= j
          IN <<SubSeq(s, 1, k - 1)>> \o splitWords(SubSeq(s, SkipSpaces(s, k), Len(s)))

\* ------------------------------------------------------------------------
\* geospatial-search.js.  Coordinates are held in tenths of a degree, a
\* radius in tenths of a kilometre, a distance in hundred-thousandths of a kilometre
\* (rounded up, so that it compares with a radius as the distance does) and
\* distance_km in hundredths of a kilometre.
\* ------------------------------------------------------------------------
Infinity == 2000000000

\* <<lat1, lat2, |lon2 - lon1|, d>>: the value d of the Haversine formula of
\* calculateDistance for the non-zero coordinates of the model (R = 6371)
HaversineTable ==
  {
   <<10, 10, 0, 0>>, <<10, 10, 1, 1111780>>, <<10, 10, 9, 10006020>>,
   <<10, 10, 10, 11117800>>, <<10, 10, 890, 989444153>>,
   <<10, 10, 899, 999448677>>, <<10, 10, 900, 1000560288>>,
   <<10, 11, 0, 1111950>>, <<10, 11, 1, 1572402>>, <<10, 11, 9, 10067458>>,
   <<10, 11, 10, 11173093>>, <<10, 11, 890, 989425102>>,
   <<10, 11, 899, 999429310>>, <<10, 11, 900, 1000540885>>,
   <<10, 20, 0, 11119493>>, <<10, 20, 1, 11174913>>, <<10, 20, 9, 14957369>>,
   <<10, 20, 10, 15722544>>, <<10, 20, 890, 989255209>>,
   <<10, 20, 899, 999255192>>, <<10, 20, 900, 1000366295>>,
   <<10, 910, 0, 1000754340>>, <<10, 910, 1, 1000754323>>,
   <<10, 910, 9, 1000752969>>, <<10, 910, 10, 1000752647>>,
   <<10, 910, 890, 989830593>>, <<10, 910, 899, 989655948>>,
   <<10, 910, 900, 989636541>>, <<11, 10, 0, 1111950>>,
   <<11, 10, 1, 1572402>>, <<11, 10, 9, 10067458>>, <<11, 10, 10, 11173093>>,
   <<11, 10, 890, 989425102>>, <<11, 10, 899, 999429310>>,
   <<11, 10, 900, 1000540885>>, <<11, 11, 0, 0>>, <<11, 11, 1, 1111745>>,
   <<11, 11, 9, 10005700>>, <<11, 11, 10, 11117444>>,
   <<11, 11, 890, 989404112>>, <<11, 11, 899, 999408002>>,
   <<11, 11, 900, 1000519542>>, <<11, 20, 0, 10007544>>,
   <<11, 20, 1, 10069083>>, <<11, 20, 9, 14150142>>,
   <<11, 20, 10, 14956639>>, <<11, 20, 890, 989216758>>,
   <<11, 20, 899, 999216427>>, <<11, 20, 900, 1000327495>>,
   <<11, 910, 0, 999642391>>, <<11, 910, 1, 999642374>>,
   <<11, 910, 9, 999641020>>, <<11, 910, 10, 999640698>>,
   <<11, 910, 890, 988718813>>, <<11, 910, 899, 988544168>>,
   <<11, 910, 900, 988524762>>, <<20, 10, 0, 11119493>>,
   <<20, 10, 1, 11174913>>, <<20, 10, 9, 14957369>>,
   <<20, 10, 10, 15722544>>, <<20, 10, 890, 989255209>>,
   <<20, 10, 899, 999255192>>, <<20, 10, 900, 1000366295>>,
   <<20, 11, 0, 10007544>>, <<20, 11, 1, 10069083>>, <<20, 11, 9, 14150142>>,
   <<20, 11, 10, 14956639>>, <<20, 11, 890, 989216758>>,
   <<20, 11, 899, 999216427>>, <<20, 11, 900, 1000327495>>, <<20, 20, 0, 0>>,
   <<20, 20, 1, 1111272>>, <<20, 20, 9, 10001447>>, <<20, 20, 10, 11112719>>,
   <<20, 20, 890, 988872294>>, <<20, 20, 899, 998867771>>,
   <<20, 20, 900, 999978368>>, <<20, 910, 0, 989634848>>,
   <<20, 910, 1, 989634831>>, <<20, 910, 9, 989633477>>,
   <<20, 910, 10, 989633155>>, <<20, 910, 890, 978712794>>,
   <<20, 910, 899, 978538150>>, <<20, 910, 900, 978518743>>,
   <<910, 10, 0, 1000754340>>, <<910, 10, 1, 1000754323>>,
   <<910, 10, 9, 1000752969>>, <<910, 10, 10, 1000752647>>,
   <<910, 10, 890, 989830593>>, <<910, 10, 899, 989655948>>,
   <<910, 10, 900, 989636541>>, <<910, 11, 0, 999642391>>,
   <<910, 11, 1, 999642374>>, <<910, 11, 9, 999641020>>,
   <<910, 11, 10, 999640698>>, <<910, 11, 890, 988718813>>,
   <<910, 11, 899, 988544168>>, <<910, 11, 900, 988524762>>,
   <<910, 20, 0, 989634848>>, <<910, 20, 1, 989634831>>,
   <<910, 20, 9, 989633477>>, <<910, 20, 10, 989633155>>,
   <<910, 20, 890, 978712794>>, <<910, 20, 899, 978538150>>,
   <<910, 20, 900, 978518743>>, <<910, 910, 0, 0>>, <<910, 910, 1, 19407>>,
   <<910, 910, 9, 174654>>, <<910, 910, 10, 194060>>,
   <<910, 910, 890, 15587109>>, <<910, 910, 899, 15711209>>,
   <<910, 910, 900, 15724939>>
  }

\* calculateDistance(lat1, lon1, lat2, lon2)
calculateDistance(lat1, lon1, lat2, lon2) ==
  IF lat1 = 0 \/ lat1 = NaN \/ lon1 = 0 \/ lon1 = NaN
     \/ lat2 = 0 \/ lat2 = NaN \/ lon2 = 0 \/ lon2 = NaN
  THEN Infinity
  ELSE (CHOOSE e \in HaversineTable :
          e[1] = lat1 /\ e[2] = lat2 /\ e[3] = Abs(lon2 - lon1))[4]

\* Math.round(distance * 100) / 100, in hundredths of a kilometre
RoundKm(distance) == (distance + 500) \div 1000

\* extractCoordinates(record); the rows of the two tables have none of the
\* fields coordinates, location_coordinates, lat_lon, position
extractCoordinates(record) ==
  IF /\ record.latitude # NullNum /\ record.latitude # 0
     /\ record.longitude # NullNum /\ record.longitude # 0
     /\ record.latitude >= 0 - 900 /\ record.latitude <= 900
     /\ record.longitude >= 0 - 1800 /\ record.longitude <= 1800
  THEN [found |-> TRUE, lat |-> record.latitude, lon |-> record.longitude]
  ELSE [found |-> FALSE, lat |-> 0, lon |-> 0]

\* Math.cos(toRadians(lat)) in ten-thousandths, for the latitudes of the model
CosE4(lat) ==
  CASE lat = 0 -> 10000
    [] lat = 10 -> 9998
    [] lat = 11 -> 9998
    [] lat = 20 -> 9994
    [] lat = 910 -> 0 - 175

\* createBoundingBox(centerLat, centerLon, radiusKm), in ten-thousandths of a
\* degree; a NaN centre gives NaN bounds
createBoundingBox(centerLat, centerLon, radiusKm) ==
  IF centerLat = NaN \/ centerLon = NaN
  THEN [minLat |-> NaN, maxLat |-> NaN, minLon |-> NaN, maxLon |-> NaN]
  ELSE LET latOffset == (radiusKm * 100000) \div 11132
           lonOffset == (latOffset * 10000) \div CosE4(centerLat)
       IN [minLat |-> centerLat * 1000 - latOffset,
           maxLat |-> centerLat * 1000 + latOffset,
           minLon |-> centerLon * 1000 - lonOffset,
           maxLon |-> centerLon * 1000 + lonOffset]

\* ------------------------------------------------------------------------
\* The record store (sqlite3).  A row is a record of its columns; a text
\* column holds a string or NULL, latitude and longitude a number of tenths
\* or NullNum, id an integer.  Columns no condition of the search reads
\* (color, date_lost, date_found, updated_at) are left out.
\* ------------------------------------------------------------------------
\* CREATE TABLE lost_phones and found_phones of server.js, with the columns
\* add_geolocation_fields.js adds
LostColumns == {"id", "phone_number", "imei", "email", "brand", "model", "description",
                "location_lost", "country", "region_state", "city", "latitude",
                "longitude", "contact_name", "contact_phone", "status", "created_at"}
FoundColumns == {"id", "phone_number", "imei", "email", "brand", "model", "description",
                 "location_found", "country", "region_state", "city", "latitude",
                 "longitude", "finder_name", "finder_contact", "created_at"}

\* the columns a condition names
RECURSIVE CondColumns(_)
CondColumns(cond) ==
  IF cond.op \in {"and", "or"}
  THEN UNION {CondColumns(cond.kids[i]) : i \in 1..Len(cond.kids)}
  ELSE IF cond.op = "true" THEN {}
  ELSE IF cond.op = "bbox" THEN {"latitude", "longitude"}
  ELSE {cond.col}

\* whether a row satisfies a condition; NULL operands make a comparison
\* false, the conditions of the search having no NOT
RECURSIVE EvalCond(_, _)
EvalCond(cond, row) ==
  CASE cond.op = "like" ->
         row[cond.col] # NULL /\ includes(toLowerCase(row[cond.col]), toLowerCase(cond.arg))
    [] cond.op = "notnull" -> row[cond.col] # NULL
    [] cond.op = "ge" -> row[cond.col] # NULL /\ ~StrLess(row[cond.col], cond.arg)
    [] cond.op = "le" -> row[cond.col] # NULL /\ ~StrLess(cond.arg, row[cond.col])
    [] cond.op = "in" -> \E i \in 1..Len(cond.arg) : row[cond.col] = cond.arg[i]
    [] cond.op = "bbox" ->
         /\ cond.arg.minLat # NaN
         /\ row.latitude # NullNum /\ row.longitude # NullNum
         /\ row.latitude * 1000 >= cond.arg.minLat /\ row.latitude * 1000 <= cond.arg.maxLat
         /\ row.longitude * 1000 >= cond.arg.minLon /\ row.longitude * 1000 <= cond.arg.maxLon
    [] cond.op = "true" -> TRUE
    [] cond.op = "and" -> \A i \in 1..Len(cond.kids) : EvalCond(cond.kids[i], row)
    [] cond.op = "or" -> \E i \in 1..Len(cond.kids) : EvalCond(cond.kids[i], row)

\* the sequence seq sorted by the comparator Cmp (negative when its first
\* argument comes first), equal elements keeping their order; Cmp is a total
\* preorder
StableSort(seq, Cmp(_, _)) ==
  LET n == Len(seq)
      rank == [i \in 1..n |-> 1 + Cardinality({j \in 1..n :
                                    \/ Cmp(seq[j], seq[i]) < 0
                                    \/ Cmp(seq[j], seq[i]) = 0 /\ j < i})]
  IN [k \in 1..n |-> seq[CHOOSE i \in 1..n : rank[i] = k]]

\* comparison of two values of a column in ORDER BY: NULL first, text by code
\* unit, id by value
CompareColumn(a, b, col) ==
  IF col = "id" THEN a[col] - b[col]
  ELSE IF a[col] = b[col] THEN 0
  ELSE IF a[col] = NULL THEN 0 - 1
  ELSE IF b[col] = NULL THEN 1
  ELSE IF StrLess(a[col], b[col]) THEN 0 - 1 ELSE 1

\* comparison of two rows under the ORDER BY terms; rows equal in every term
\* come in the order of the table (rowid)
RECURSIVE CompareRows(_, _, _)
CompareRows(a, b, orderBy) ==
  IF Len(orderBy) = 0 THEN a.id - b.id
  ELSE LET c == CompareColumn(a, b, orderBy[1].col)
       IN IF c = 0 THEN CompareRows(a, b, Tail(orderBy))
          ELSE IF orderBy[1].desc THEN 0 - c ELSE c

\* optimizeQuery(baseQuery, {orderBy, limit, useIndex}): the base query of the
\* search has neither ORDER BY nor LIMIT, so both are appended (the limit
\* when it is not 0)
optimizeQuery(baseQuery, options) ==
  [from |-> baseQuery.from, where |-> baseQuery.where,
   orderBy |-> options.orderBy, limit |-> options.limit]

\* db.all(sql, params) without error: the rows of the table that satisfy
\* every condition, ordered, at most limit of them
ScanRows(table, sql) ==
  LET Matches(row) == \A i \in 1..Len(sql.where) : EvalCond(sql.where[i], row)
      Cmp(a, b) == CompareRows(a, b, sql.orderBy)
      ordered == StableSort(SelectSeq(table, Matches), Cmp)
  IN IF sql.limit = 0 THEN ordered ELSE SubSeq(ordered, 1, Min(sql.limit, Len(ordered)))

\* db.all fails when the statement names a column the table does not have
NoSuchColumn(sql, columns) ==
  \E i \in 1..Len(sql.where) : ~(CondColumns(sql.where[i]) \subseteq columns)

\* ------------------------------------------------------------------------
\* Result items.  A row the search returns gains properties on its way: the
\* item [rec, _similarity, _matchField, distance_km, coordinates, source]
\* holds the row and those properties, a property the item does not have
\* being -1 (numbers), "" (names) or <<>> (coordinates).
\* ------------------------------------------------------------------------
ToItem(row) ==
  [rec |-> row, _similarity |-> 0 - 1, _matchField |-> "", distance_km |-> 0 - 1,
   coordinates |-> <<>>, source |-> ""]
ToItems(rows) == [i \in 1..Len(rows) |-> ToItem(rows[i])]

\* the best similarity of the search term over the fields of a row, and the
\* first field that reaches it ("null" when no field scores above 0)
RECURSIVE BestMatch(_, _, _, _, _)
BestMatch(row, searchTerm, fields, bestSimilarity, bestField) ==
  IF Len(fields) = 0 THEN [similarity |-> bestSimilarity, field |-> bestField]
  ELSE LET fieldValue == row[fields[1]]
           similarity == calculateSimilarity(searchTerm, fieldValue)
       IN IF Truthy(fieldValue) /\ similarity > bestSimilarity
          THEN BestMatch(row, searchTerm, Tail(fields), similarity, fields[1])
          ELSE BestMatch(row, searchTerm, Tail(fields), bestSimilarity, bestField)

\* multiFieldFuzzySearch(results, searchTerm, fields, threshold)
multiFieldFuzzySearch(results, searchTerm, fields, threshold) ==
  IF ~Truthy(searchTerm) \/ Len(results) = 0 THEN results
  ELSE LET Scored(item) ==
             LET best == BestMatch(item.rec, searchTerm, fields, 0, "null")
             IN [item EXCEPT !._similarity = best.similarity, !._matchField = best.field]
           scoredResults == [i \in 1..Len(results) |-> Scored(results[i])]
           Passes(item) == item._similarity >= threshold * Percent
           Cmp(a, b) == b._similarity - a._similarity
       IN StableSort(SelectSeq(scoredResults, Passes), Cmp)

\* filterByProximity(records, centerLat, centerLon, radiusKm)
filterByProximity(records, centerLat, centerLon, radiusKm) ==
  LET Distance(item) ==
        calculateDistance(centerLat, centerLon,
                          extractCoordinates(item.rec).lat, extractCoordinates(item.rec).lon)
      Near(item) == extractCoordinates(item.rec).found /\ Distance(item) <= radiusKm * 10000
      kept == SelectSeq(records, Near)
      results == [i \in 1..Len(kept) |->
                    [kept[i] EXCEPT !.distance_km = RoundKm(Distance(kept[i])),
                                    !.coordinates = <<extractCoordinates(kept[i].rec).lat,
                                                      extractCoordinates(kept[i].rec).lon>>]]
      Cmp(a, b) == a.distance_km - b.distance_km
  IN StableSort(results, Cmp)

\* ------------------------------------------------------------------------
\* server.js: GET /api/search.  q is req.query: every field is a string or
\* undefined.
\* ------------------------------------------------------------------------
\* a destructuring default: the default replaces undefined only
Default(v, d) == IF v = undefined THEN d ELSE v

\* statusArray, deviceTypeArray, brandArray
ParseArray(v) == IF Truthy(v) THEN split(v) ELSE <<>>

\* advancedFilterParams
advancedFilterParams(q) ==
  [dateFrom |-> q.dateFrom, dateTo |-> q.dateTo, timeRange |-> q.timeRange,
   status |-> ParseArray(q.status),
   deviceType |-> ParseArray(q.deviceType),
   brand |-> ParseArray(q.brand),
   country |-> q.country, region |-> q.region, city |-> q.city,
   imei |-> q.imei, phoneNumber |-> q.phoneNumber]

\* useCache whatever the cache parameter says
useCache_always(q) == TRUE
useCache(q) == Default(q.cache, kTrue) = kTrue
\* lat && lon, as a condition
useGeospatial(q) == Truthy(q.lat) /\ Truthy(q.lon)
\* lat && lon, as the value the response echoes
geospatialEnabled(q) == IF Truthy(q.lat) THEN q.lon ELSE q.lat
hasAdvancedFilters(q) ==
  \E i \in 1..Len(FilterKeys) : FilterActive(advancedFilterParams(q), FilterKeys[i])
\* noCriteria without the test of the advanced filters
noCriteria_noAdvanced(q) ==
  /\ ~Truthy(q.query) /\ ~Truthy(q.country) /\ ~Truthy(q.region) /\ ~Truthy(q.city)
  /\ ~useGeospatial(q)
\* the test that rejects a request without search criteria
noCriteria(q) ==
  /\ ~Truthy(q.query) /\ ~Truthy(q.country) /\ ~Truthy(q.region) /\ ~Truthy(q.city)
  /\ ~useGeospatial(q) /\ ~hasAdvancedFilters(q)

useFuzzy(q) == Default(q.fuzzy, kTrue) = kTrue
usePhonetic(q) == Default(q.phonetic, kFalse) = kTrue
\* parseInt(threshold) || 70 and parseFloat(radius) || 10
similarityThreshold(q) == NumOr(parseInt(Default(q.threshold, k70)), 70)
searchRadius(q) == NumOr(parseFloat(Default(q.radius, k10)), 100)
validPagination(q) ==
  validatePaginationParams(Default(q.page, k1), Default(q.limit, k50))

sPhone == <<"p", "h", "o", "n", "e">>
sImei == <<"i", "m", "e", "i">>
sEmail == <<"e", "m", "a", "i", "l">>
sGeneral == <<"g", "e", "n", "e", "r", "a", "l">>

\* the columns of the general text query
GeneralColumns == <<"phone_number", "imei", "email", "brand", "model", "description",
                    "location_lost", "contact_name">>

needsFuzzyProcessing(q) ==
  /\ Truthy(q.query)
  /\ IF q.type \in {sPhone, sImei} THEN useFuzzy(q)
     ELSE IF q.type = sEmail THEN FALSE
     ELSE (useFuzzy(q) \/ usePhonetic(q)) /\ useFuzzy(q)
needsPhoneticProcessing(q) ==
  /\ Truthy(q.query)
  /\ q.type \notin {sPhone, sImei, sEmail}
  /\ (useFuzzy(q) \/ usePhonetic(q)) /\ usePhonetic(q)
needsGeospatialProcessing(q) == useGeospatial(q)

\* the geographic conditions
geoConditions(q) ==
  IF useGeospatial(q)
  THEN <<BBox(createBoundingBox(parseFloat(q.lat), parseFloat(q.lon), searchRadius(q)))>>
  ELSE (IF Truthy(q.country) THEN <<Like("country", q.country)>> ELSE <<>>)
       \o (IF Truthy(q.region) THEN <<Like("region_state", q.region)>> ELSE <<>>)
       \o (IF Truthy(q.city) THEN <<Like("city", q.city)>> ELSE <<>>)

\* the conditions of the text query
queryConditions(q) ==
  IF ~Truthy(q.query) THEN <<>>
  ELSE IF q.type = sPhone
  THEN (IF useFuzzy(q)
        THEN <<Or(<<NotNull("phone_number"), NotNull("contact_phone")>>)>>
        ELSE <<Or(<<Like("phone_number", q.query), Like("contact_phone", q.query)>>)>>)
  ELSE IF q.type = sImei
  THEN (IF useFuzzy(q) THEN <<NotNull("imei")>> ELSE <<Like("imei", q.query)>>)
  ELSE IF q.type = sEmail THEN <<Like("email", q.query)>>
  ELSE IF useFuzzy(q) \/ usePhonetic(q)
  THEN <<Or([i \in 1..8 |-> NotNull(GeneralColumns[i])])>>
  ELSE <<Or([i \in 1..8 |-> Like(GeneralColumns[i], q.query)])>>

\* whereConditions.join(' AND '), '1=1' standing for no condition of its own
JoinConditions(own, advanced) ==
  (IF Len(own) = 0 THEN <<True1>> ELSE own)
  \o (IF Len(advanced) > 0 THEN <<And(advanced)>> ELSE <<>>)
\* whereConditions, as the lost-phones statement has them
whereConditions(q) ==
  JoinConditions(geoConditions(q) \o queryConditions(q),
                 IF hasAdvancedFilters(q)
                 THEN buildFilterConditions(advancedFilterParams(q)) ELSE <<>>)

\* condition.replace('location_lost', 'location_found')
\*          .replace('contact_name', 'finder_name')
\*          .replace('contact_phone', 'finder_contact');
\* no condition of the search names one of these columns twice
RenameColumn(col) ==
  CASE col = "location_lost" -> "location_found"
    [] col = "contact_name" -> "finder_name"
    [] col = "contact_phone" -> "finder_contact"
    [] OTHER -> col
RECURSIVE RenameCond(_)
RenameCond(cond) ==
  [cond EXCEPT !.col = RenameColumn(@),
               !.kids = [i \in 1..Len(@) |-> RenameCond(@[i])]]
RenameConds(conds) == [i \in 1..Len(conds) |-> RenameCond(conds[i])]
foundWhereConditions(q) == RenameConds(whereConditions(q))

\* the two statements
lostSql(q) ==
  optimizeQuery([from |-> "lost_phones", where |-> whereConditions(q)],
                [orderBy |-> optimizeOrderBy(<<Desc("created_at")>>, advancedFilterParams(q)),
                 limit |-> validPagination(q).limit * 3])
foundSql(q) ==
  optimizeQuery([from |-> "found_phones", where |-> foundWhereConditions(q)],
                [orderBy |-> optimizeOrderBy(<<Desc("created_at")>>, advancedFilterParams(q)),
                 limit |-> validPagination(q).limit * 3])

\* the fuzzy post-filter of one category; contactPhone and fields are the
\* category's names of the contact-phone column and of the general columns
fuzzyFilter(q, results, contactPhone, fields) ==
  IF ~(useFuzzy(q) /\ needsFuzzyProcessing(q) /\ Truthy(q.query)) THEN results
  ELSE IF q.type = sPhone
  THEN LET Similar(item) ==
             \/ isPhoneSimilar(q.query, item.rec.phone_number, similarityThreshold(q))
             \/ isPhoneSimilar(q.query, item.rec[contactPhone], similarityThreshold(q))
       IN SelectSeq(results, Similar)
  ELSE IF q.type = sImei
  THEN LET Similar(item) == isIMEISimilar(q.query, item.rec.imei, similarityThreshold(q))
       IN SelectSeq(results, Similar)
  ELSE multiFieldFuzzySearch(results, q.query, fields, similarityThreshold(q))

\* the phonetic post-filter of one category over its fieldsToCheck
phoneticFilter(q, results, fieldsToCheck) ==
  IF ~(usePhonetic(q) /\ needsPhoneticProcessing(q) /\ Truthy(q.query)) THEN results
  ELSE LET queryPhonetic == soundex(q.query)
           FieldSounds(value) ==
             /\ Truthy(value)
             /\ \E w \in Range(splitWords(value)) : soundex(w) = queryPhonetic
           Sounds(item) ==
             \E i \in 1..Len(fieldsToCheck) : FieldSounds(item.rec[fieldsToCheck[i]])
       IN SelectSeq(results, Sounds)

\* the geospatial post-filter, which the handler applies to the lost rows
geoFilter(q, results) ==
  IF useGeospatial(q) /\ needsGeospatialProcessing(q)
  THEN filterByProximity(results, parseFloat(q.lat), parseFloat(q.lon), searchRadius(q))
  ELSE results

LostFields == <<"phone_number", "imei", "email", "brand", "model", "description",
                "location_lost", "contact_name">>
FoundFields == <<"phone_number", "imei", "email", "brand", "model", "description",
                 "location_found", "finder_name">>
LostPhoneticFields == <<"contact_name", "brand", "model", "description", "location_lost">>
FoundPhoneticFields == <<"finder_name", "brand", "model", "description", "location_found">>

\* results: the lost rows after the post-filters of the first callback
lostResults(q, rows) ==
  geoFilter(q, phoneticFilter(q, fuzzyFilter(q, ToItems(rows), "contact_phone", LostFields),
                              LostPhoneticFields))
\* foundResults: the found rows after the post-filters of the second callback
foundResultsOf(q, foundRows) ==
  phoneticFilter(q, fuzzyFilter(q, ToItems(foundRows), "finder_contact", FoundFields),
                 FoundPhoneticFields)

\* new Date(b.created_at) - new Date(a.created_at); a NaN difference
\* counts as 0 in the sort
DateDifference(da, db) == IF da = NaN \/ db = NaN THEN 0 ELSE db - da
\* the comparator of combinedResults.sort
MergeCompare(a, b, geo) ==
  IF geo /\ a.distance_km # 0 - 1 /\ b.distance_km # 0 - 1
  THEN a.distance_km - b.distance_km
  ELSE DateDifference(DateOf(a.rec.created_at), DateOf(b.rec.created_at))

\* Array.prototype.sort of V8 for an array shorter than 64: the leading run
\* is found (and reversed when descending), then each later element is placed
\* by binary insertion
EndsRun(order, isDescending) ==
  (isDescending /\ order >= 0) \/ (~isDescending /\ order < 0)
RECURSIVE RunLength(_, _, _, _)
RunLength(arr, idx, isDescending, geo) ==
  IF idx > Len(arr) THEN Len(arr)
  ELSE IF EndsRun(MergeCompare(arr[idx], arr[idx - 1], geo), isDescending) THEN idx - 1
  ELSE RunLength(arr, idx + 1, isDescending, geo)
Reverse(seq) == [i \in 1..Len(seq) |-> seq[Len(seq) + 1 - i]]
RECURSIVE BinarySearch(_, _, _, _, _)
BinarySearch(arr, pivot, left, right, geo) ==
  IF left >= right THEN left
  ELSE LET mid == left + ((right - left) \div 2)
       IN IF MergeCompare(pivot, arr[mid + 1], geo) < 0
          THEN BinarySearch(arr, pivot, left, mid, geo)
          ELSE BinarySearch(arr, pivot, mid + 1, right, geo)
\* the array with the element at index start moved to index pos
MoveTo(arr, start, pos) ==
  SubSeq(arr, 1, pos) \o <<arr[start + 1]>> \o SubSeq(arr, pos + 1, start)
  \o SubSeq(arr, start + 2, Len(arr))
RECURSIVE BinaryInsertionSort(_, _, _)
BinaryInsertionSort(arr, start, geo) ==
  IF start >= Len(arr) THEN arr
  ELSE BinaryInsertionSort(MoveTo(arr, start, BinarySearch(arr, arr[start + 1], 0, start, geo)),
                           start + 1, geo)
\* the array with its leading run of runLength elements made ascending
WithRun(arr, isDescending, runLength) ==
  IF isDescending
  THEN Reverse(SubSeq(arr, 1, runLength)) \o SubSeq(arr, runLength + 1, Len(arr))
  ELSE arr
SortFromRun(arr, isDescending, runLength, geo) ==
  BinaryInsertionSort(WithRun(arr, isDescending, runLength), runLength, geo)
SortRuns(arr, isDescending, geo) ==
  SortFromRun(arr, isDescending, RunLength(arr, 3, isDescending, geo), geo)
sortCombined(arr, geo) ==
  IF Len(arr) < 2 THEN arr
  ELSE SortRuns(arr, MergeCompare(arr[2], arr[1], geo) < 0, geo)

\* combinedResults: both categories tagged with their source, then sorted
Tagged(items, source) == [i \in 1..Len(items) |-> [items[i] EXCEPT !.source = source]]
combinedResultsOf(q, results, foundResults) ==
  The({sortCombined(combinedResults, useGeospatial(q)) :
         combinedResults \in {Tagged(results, "lost_phones")
                               \o Tagged(foundResults, "found_phones")}})

\* the search_info of the partial response, of the cache entry and of the
\* full response
searchInfoBase(q, total) ==
  [query |-> q.query, type |-> q.type,
   fuzzy_enabled |-> useFuzzy(q), phonetic_enabled |-> usePhonetic(q),
   geospatial_enabled |-> geospatialEnabled(q),
   threshold |-> similarityThreshold(q),
   radius_km |-> IF useGeospatial(q) THEN searchRadius(q) ELSE 0 - 1,
   center_coordinates |-> IF useGeospatial(q)
                          THEN <<parseFloat(q.lat), parseFloat(q.lon)>> ELSE <<>>,
   total_results |-> total]
\* record r extended with the field name
WithField(r, name, value) ==
  [f \in DOMAIN r \cup {name} |-> IF f = name THEN value ELSE r[f]]
cacheDataOf(q, combinedResults) ==
  [combined_results |-> combinedResults,
   search_info |-> WithField(searchInfoBase(q, Len(combinedResults)), "filter_summary",
                             generateFilterSummary(advancedFilterParams(q)))]

\* ------------------------------------------------------------------------
\* The rows of the two tables in the runs of the model
\* ------------------------------------------------------------------------
LostRows == <<
  [id |-> 1, phone_number |-> <<"5", "5", "5", "-", "1", "2", "3", "4">>, imei |-> NULL,
    email |-> <<"a", "@", "x">>, brand |-> <<"A", "p", "p", "l", "e">>, model |-> <<"a", "b">>,
    description |-> NULL, location_lost |-> NULL, country |-> <<"P", "H">>, region_state |-> NULL,
    city |-> <<"C", "e", "b", "u">>, latitude |-> 10, longitude |-> 10,
    contact_name |-> <<"A", "l">>, contact_phone |-> <<"5", "5", "5", "1", "2", "3", "4">>,
    status |-> <<"l", "o", "s", "t">>,
    created_at |-> <<"2", "0", "2", "6", "-", "1", "1", "-", "0", "1", " ", "1", "0", ":", "0", "0", ":", "0", "0">>],
  [id |-> 2, phone_number |-> NULL, imei |-> NULL, email |-> <<"b", "@", "x">>,
    brand |-> <<"S", "a", "m", "s", "u", "n", "g">>, model |-> <<"a", "b", "c">>,
    description |-> NULL, location_lost |-> NULL, country |-> <<"P", "H">>, region_state |-> NULL,
    city |-> <<"M", "a", "n", "i", "l", "a">>, latitude |-> 11, longitude |-> 11,
    contact_name |-> <<"B", "o">>, contact_phone |-> NULL,
    status |-> <<"r", "e", "t", "u", "r", "n", "e", "d">>,
    created_at |-> <<"2", "0", "2", "6", "-", "1", "0", "-", "0", "1", " ", "1", "0", ":", "0", "0", ":", "0", "0">>],
  [id |-> 3, phone_number |-> NULL, imei |-> <<"3", "5", "-", "1">>, email |-> <<"c", "@", "x">>,
    brand |-> <<"a", "p", "p", "l", "e">>, model |-> NULL, description |-> <<"a", "b">>,
    location_lost |-> NULL, country |-> <<"U", "S">>, region_state |-> NULL, city |-> NULL,
    latitude |-> NullNum, longitude |-> NullNum, contact_name |-> <<"A", "l", " ", "A", "b">>,
    contact_phone |-> NULL, status |-> <<"l", "o", "s", "t">>,
    created_at |-> <<"2", "0", "2", "5", "-", "0", "6", "-", "0", "1", " ", "1", "0", ":", "0", "0", ":", "0", "0">>],
  [id |-> 4, phone_number |-> NULL, imei |-> NULL, email |-> <<"d", "@", "x">>,
    brand |-> <<"S", "o", "n", "y">>, model |-> <<"x", "a", "b">>, description |-> NULL,
    location_lost |-> NULL, country |-> <<"P", "H">>, region_state |-> NULL,
    city |-> <<"C", "e", "b", "u">>, latitude |-> 20, longitude |-> 20,
    contact_name |-> <<"D", "i">>, contact_phone |-> NULL, status |-> <<"f", "o", "u", "n", "d">>,
    created_at |-> <<"2", "0", "2", "4", "-", "0", "3", "-", "0", "1", " ", "1", "0", ":", "0", "0", ":", "0", "0">>] >>
FoundRows == <<
  [id |-> 1, phone_number |-> <<"5", "5", "5", "1", "2", "3", "4">>, imei |-> NULL, email |-> NULL,
    brand |-> <<"A", "p", "p", "l", "e">>, model |-> <<"a", "b">>, description |-> NULL,
    location_found |-> NULL, country |-> <<"P", "H">>, region_state |-> NULL,
    city |-> <<"C", "e", "b", "u">>, latitude |-> 10, longitude |-> 11,
    finder_name |-> <<"F", "e">>, finder_contact |-> <<"5", "5", "5", "-", "9", "9", "9", "9">>,
    created_at |-> <<"2", "0", "2", "6", "-", "1", "0", "-", "1", "5", " ", "1", "0", ":", "0", "0", ":", "0", "0">>],
  [id |-> 2, phone_number |-> NULL, imei |-> NULL, email |-> NULL, brand |-> <<"L", "G">>,
    model |-> <<"b">>, description |-> <<"a", "b", "b">>, location_found |-> NULL,
    country |-> <<"U", "S">>, region_state |-> NULL, city |-> NULL, latitude |-> 0,
    longitude |-> 10, finder_name |-> <<"A", "b">>, finder_contact |-> <<"1", "2", "3">>,
    created_at |-> <<"2", "0", "2", "5", "-", "0", "1", "-", "0", "1", " ", "1", "0", ":", "0", "0", ":", "0", "0">>] >>

\* The tables of the runs about phone numbers: a record whose number is the
\* query's after normalization and a record one digit away from it, in either
\* category and in either order of creation
sPhoneA == <<"5", "5", "5", "-", "1", "2", "3", "-", "4", "5", "6", "7">>
sPhoneB == <<"5", "5", "5", "1", "2", "3", "4", "5", "6", "8">>
sPhoneQuery == <<"5", "5", "5", "1", "2", "3", "4", "5", "6", "7">>
dOlder == <<"2", "0", "2", "5", "-", "0", "1", "-", "0", "1", " ", "1", "0", ":", "0", "0", ":", "0", "0">>
dNewer == <<"2", "0", "2", "6", "-", "0", "1", "-", "0", "1", " ", "1", "0", ":", "0", "0", ":", "0", "0">>
LostPhone(id, number, created) ==
  [LostRows[2] EXCEPT !.id = id, !.phone_number = number, !.created_at = created]
FoundPhone(id, number, created) ==
  [FoundRows[2] EXCEPT !.id = id, !.phone_number = number, !.created_at = created]
PhoneTables ==
  UNION { { [lost |-> <<LostPhone(1, sPhoneA, d[1]), LostPhone(2, sPhoneB, d[2])>>,
             found |-> <<>>],
            [lost |-> <<LostPhone(1, sPhoneA, d[1])>>,
             found |-> <<FoundPhone(1, sPhoneB, d[2])>>],
            [lost |-> <<LostPhone(1, sPhoneB, d[2])>>,
             found |-> <<FoundPhone(1, sPhoneA, d[1])>>] } :
          d \in {<<dOlder, dNewer>>, <<dNewer, dOlder>>} }

\* ------------------------------------------------------------------------
\* Requests.  NoParams is the query string without parameters; the requests
\* of the model set some of them.
\* ------------------------------------------------------------------------
NoParams ==
  [query |-> undefined, type |-> undefined, country |-> undefined, region |-> undefined,
   city |-> undefined, fuzzy |-> undefined, threshold |-> undefined, phonetic |-> undefined,
   lat |-> undefined, lon |-> undefined, radius |-> undefined, page |-> undefined,
   limit |-> undefined, cache |-> undefined, dateFrom |-> undefined, dateTo |-> undefined,
   timeRange |-> undefined, status |-> undefined, deviceType |-> undefined,
   brand |-> undefined, imei |-> undefined, phoneNumber |-> undefined]
sAb == <<"a", "b">>
\* /api/search
qEmpty == NoParams
\* ?query=ab
qAb == [NoParams EXCEPT !.query = sAb]
\* ?query=ab&brand=apple
qAbBrand == [NoParams EXCEPT !.query = sAb, !.brand = sApple]
\* ?query=ab&fuzzy=true
qAbFuzzyTrue == [NoParams EXCEPT !.query = sAb, !.fuzzy = kTrue]
\* ?query=ab&fuzzy=false
qAbExact == [NoParams EXCEPT !.query = sAb, !.fuzzy = kFalse]
\* ?query=ab&fuzzy=false&limit=1
qLimit1 == [NoParams EXCEPT !.query = sAb, !.fuzzy = kFalse, !.limit = k1]
\* ?query=ab&dateFrom=2025-01-01&dateTo=2024-01-01&status=bogus,lost
qBadDates ==
  [NoParams EXCEPT !.query = sAb,
                   !.dateFrom = <<"2", "0", "2", "5", "-", "0", "1", "-", "0", "1">>,
                   !.dateTo = <<"2", "0", "2", "4", "-", "0", "1", "-", "0", "1">>,
                   !.status = <<"b", "o", "g", "u", "s", ",", "l", "o", "s", "t">>]
\* ?brand=apple
qBrandOnly == [NoParams EXCEPT !.brand = sApple]
\* ?query=ab&status=lost
qStatus == [NoParams EXCEPT !.query = sAb, !.status = sLost]
\* ?query=ab&deviceType=smartphone
qDevice == [NoParams EXCEPT !.query = sAb, !.deviceType = sSmartphone]
\* ?query=ab&cache=false
qNoCache == [NoParams EXCEPT !.query = sAb, !.cache = kFalse]
\* ?lat=1&lon=1&radius=200&country=US
qGeoCountry == [NoParams EXCEPT !.lat = k1, !.lon = k1, !.radius = <<"2", "0", "0">>,
                                !.country = <<"U", "S">>]
\* ?lat=1&lon=1&radius=200
qGeo == [NoParams EXCEPT !.lat = k1, !.lon = k1, !.radius = <<"2", "0", "0">>]
\* ?query=ab&threshold=150
qThreshold150 == [NoParams EXCEPT !.query = sAb, !.threshold = <<"1", "5", "0">>]
\* ?lat=1&lon=1&radius=1500
qRadius1500 == [NoParams EXCEPT !.lat = k1, !.lon = k1, !.radius = <<"1", "5", "0", "0">>]
\* ?query=5551234567&type=phone&threshold=90
qPhone90 == [NoParams EXCEPT !.query = sPhoneQuery, !.type = sPhone,
                             !.threshold = <<"9", "0">>]
\* ?query=5551234567&type=phone&threshold=70
qPhone70 == [NoParams EXCEPT !.query = sPhoneQuery, !.type = sPhone, !.threshold = k70]
\* ?query=5551234567&type=phone&threshold=91
qPhone91 == [NoParams EXCEPT !.query = sPhoneQuery, !.type = sPhone,
                             !.threshold = <<"9", "1">>]
\* ?query=ab&fuzzy=false&page=..&limit=..
Paged(page, limit) ==
  [NoParams EXCEPT !.query = sAb, !.fuzzy = kFalse, !.page = page, !.limit = limit]
k2 == <<"2">>
sX == <<"x">>
\* ?query=zz&fuzzy=false&page=3&limit=2, which no row matches
qPagedNone == [NoParams EXCEPT !.query = <<"z", "z">>, !.fuzzy = kFalse,
                               !.page = <<"3">>, !.limit = k2]
\* ?query=ab&lat=1
qLatOnly == [NoParams EXCEPT !.query = sAb, !.lat = k1]
\* ?lat=91&lon=1
qLatOutOfRange == [NoParams EXCEPT !.lat = <<"9", "1">>, !.lon = k1]
\* ?query=ab&dateFrom=2027-01-01
qFutureFrom ==
  [NoParams EXCEPT !.query = sAb,
                   !.dateFrom = <<"2", "0", "2", "7", "-", "0", "1", "-", "0", "1">>]
\* ?query=ab&dateFrom=2027-01-01&dateTo=2028-01-01
qFutureBoth ==
  [NoParams EXCEPT !.query = sAb,
                   !.dateFrom = <<"2", "0", "2", "7", "-", "0", "1", "-", "0", "1">>,
                   !.dateTo = <<"2", "0", "2", "8", "-", "0", "1", "-", "0", "1">>]
\* the sets of requests the clients of one run choose from
RequestPools ==
  { {qAb, qAbBrand}, {qAb, qAbFuzzyTrue}, {qEmpty, qBrandOnly}, {qBadDates, qNoCache},
    {qStatus, qDevice}, {qAbExact, qLimit1}, {qGeoCountry, qGeo} }

\* the pools of the runs about the numeric parameters of a request
ParamPools ==
  { {qThreshold150, qRadius1500}, {qLatOnly, qLatOutOfRange},
    {qFutureFrom, qFutureBoth}, {qBadDates, qStatus}, {qAbExact, qAbFuzzyTrue} }

\* the pools of the runs about phone numbers
PhonePools ==
  { {qPhone90, qPhone70}, {qPhone91, qPhone90} }

\* the pools of the runs about pagination: page and limit in range, beyond
\* the last page, zero, negative, not a number, absent and oversize
PagingPools ==
  { {Paged(k2, k2), Paged(<<"9">>, k2)},
    {Paged(<<"0">>, k1), Paged(<<"-", "1">>, <<"-", "3">>)},
    {Paged(sX, sX), Paged(k2, <<"5", "0", "0">>)},
    {Paged(k2, <<"0">>), Paged(undefined, k2)},
    {qPagedNone, Paged(<<"3">>, undefined)} }

\* every request of the model
\* the pools of the runs in which every pending callback fires
FairPools == { {qAbExact, qEmpty}, {qAbExact, qBadDates} }

AllRequests ==
  UNION (RequestPools \cup ParamPools \cup PhonePools \cup PagingPools \cup FairPools)

\* the connections of the clients
Clients == {"c1", "c2"}

\* ------------------------------------------------------------------------
\* The responses of GET /api/search: [status, kind, body], kind naming the
\* statement of the handler that sent it
\* ------------------------------------------------------------------------
noResponse == [status |-> 0, kind |-> "none", body |-> [error |-> ""]]
\* invalidResponse reporting the first violation only
invalidResponse_firstOnly(filterValidation) ==
  [status |-> 400, kind |-> "invalid",
   body |-> [error |-> "Invalid filter parameters",
             details |-> SubSeq(filterValidation.errors, 1, 1)]]
\* res.status(400).json({error: 'Invalid filter parameters', details})
invalidResponse(filterValidation) ==
  [status |-> 400, kind |-> "invalid",
   body |-> [error |-> "Invalid filter parameters", details |-> filterValidation.errors]]
\* res.status(400).json({error: 'Search query, ... are required'})
criteriaResponse ==
  [status |-> 400, kind |-> "criteria",
   body |-> [error |-> "Search query, location filter, coordinates, or advanced filters are required"]]
\* paginateResults(results, validPage, validLimit)
PaginateWith(results, valid) == paginateResults(results, valid.page, valid.limit)
paginateFor(q, results) == PaginateWith(results, validPagination(q))
\* the search_info of a response: info with performance, cache_hit and
\* filter_summary set
responseInfo(q, info, metrics, cacheHit) ==
  [f \in DOMAIN info \cup {"performance", "cache_hit", "filter_summary"} |->
     CASE f = "performance" -> metrics
       [] f = "cache_hit" -> cacheHit
       [] f = "filter_summary" -> generateFilterSummary(advancedFilterParams(q))
       [] OTHER -> info[f]]
\* res.json of a page of results
pageResponse(q, kind, paginated, info, startTime, clock, fromCache) ==
  [status |-> 200, kind |-> kind,
   body |-> [data |-> paginated.data, pagination |-> paginated.pagination,
             search_info |->
               responseInfo(q, info,
                            createPerformanceMetrics(startTime, Len(paginated.data),
                                                     fromCache, clock),
                            fromCache)]]
\* the response of a cache hit at time clock
cacheHitResponse(q, cachedResults, startTime, clock) ==
  pageResponse(q, "hit", paginateFor(q, cachedResults.combined_results),
               cachedResults.search_info, startTime, clock, TRUE)
\* res.status(500).json({error: err.message}) of the first callback
lostErrorResponse ==
  [status |-> 500, kind |-> "error", body |-> [error |-> "SQLITE_ERROR"]]
\* partialResponse failing the request as the first callback does
partialResponse_hardFailure(q, results) ==
  [status |-> 500, kind |-> "error", body |-> [error |-> "SQLITE_ERROR"]]
\* the response of the second callback when the found-phones statement fails
partialResponse(q, results) ==
  [status |-> 200, kind |-> "partial",
   body |-> [lost_phones |-> results, found_phones |-> <<>>,
             search_info |-> searchInfoBase(q, Len(results))]]
\* the response of the second callback at time clock
freshResponse(q, combinedResults, startTime, clock) ==
  pageResponse(q, "fresh", paginateFor(q, combinedResults),
               searchInfoBase(q, Len(combinedResults)), startTime, clock, FALSE)

\* searchAnalytics.trackSearch(searchData): the fields of searchData that
\* differ between the two calls; metrics has no response_time_ms, so
\* responseTime is undefined
notTracked == [called |-> FALSE, resultsCount |-> 0, responseTime |-> undefined,
               cacheHit |-> FALSE]
trackSearch(resultsCount, cacheHit) ==
  [called |-> TRUE, resultsCount |-> resultsCount, responseTime |-> undefined,
   cacheHit |-> cacheHit]

\* ------------------------------------------------------------------------
\* State
\* ------------------------------------------------------------------------
VARIABLES
  lost_phones,   \* the rows of table lost_phones
  found_phones,  \* the rows of table found_phones
  searchCache,   \* the NodeCache: key -> [v, t]
  stored,        \* history: key -> [value, at] of the last cacheResults under it
  now,           \* Date.now(), in seconds
  conn,          \* per connection: the request in progress or last served
  pool,          \* the requests the clients of this run choose from
  broken,        \* the table whose statements fail in this run, or "none"
  sent,          \* number of requests sent so far
  report,        \* the response to the last report submitted, if any
  analytics,     \* the SearchAnalytics object and what reached its tables
  call           \* a function of a module called on its own: arguments and result

vars == <<lost_phones, found_phones, searchCache, stored, now, conn, pool, broken, sent,
          report, analytics, call>>

\* no function has been called on its own
noCall == [fn |-> "none", args |-> <<>>, returned |-> FALSE, result |-> 0]

\* a connection: pc is where its request stands ("idle", "lostScan" and
\* "foundScan" while a statement runs, "done"); q, startTime, results are the
\* handler's variables; combined is the merged result set the response was
\* paginated from; scans lists the statements issued; cacheRead, cacheWrote
\* tell whether the handler called getCachedResults, cacheResults
idleConn ==
  [pc |-> "idle", q |-> NoParams, startTime |-> 0, results |-> <<>>, combined |-> <<>>,
   resp |-> noResponse, responses |-> 0, scans |-> <<>>, cacheRead |-> FALSE,
   cacheWrote |-> FALSE, tracked |-> notTracked]

\* SearchAnalytics: isInitialized as the constructor and the callback of the
\* last CREATE INDEX set it; failing tells whether the statements on the
\* analytics tables fail in this run; timers counts the pending
\* setTimeout(() => this.trackSearch(searchData), 100), rows the rows
\* inserted into search_analytics, logged the failures console.error reported
analyticsReady ==
  [isInitialized |-> TRUE, failing |-> FALSE, timers |-> 0, rows |-> 0, logged |-> 0]
\* trackSearch throwing the failure of the sink into its caller
trackSearchThrows_onFailure(a) == a.isInitialized /\ a.failing
\* whether the call searchAnalytics.trackSearch(searchData) throws: it sets
\* a timer and returns while the tables are not ready, and a failing
\* statement hands its error to the callback, which logs it
trackSearchThrows(a) == FALSE
\* the analytics object after the call trackSearch(searchData)
trackSearchOn(a) ==
  IF ~a.isInitialized THEN [a EXCEPT !.timers = @ + 1]
  ELSE IF a.failing THEN [a EXCEPT !.logged = @ + 1]
  ELSE [a EXCEPT !.rows = @ + 1]
\* the response of Express to an exception thrown in the handler
uncaughtResponse ==
  [status |-> 500, kind |-> "uncaught", body |-> [error |-> "Internal Server Error"]]
\* the connection after the statement searchAnalytics.trackSearch(..) that
\* precedes res.json: an exception leaves the handler before res.json
AfterTrackSearch(answered, threw) ==
  IF threw THEN [answered EXCEPT !.resp = uncaughtResponse] ELSE answered

\* no report submitted yet
noReport == [status |-> 0, body |-> [error |-> ""]]

Init ==
  /\ lost_phones = LostRows
  /\ found_phones = FoundRows
  /\ searchCache = <<>>
  /\ stored = <<>>
  /\ now = 0
  /\ conn = [c \in Clients |-> idleConn]
  /\ pool \in RequestPools
  /\ broken \in {"none", "lost_phones", "found_phones"}
  /\ sent = 0
  /\ report = noReport
  /\ call = noCall
  /\ analytics = analyticsReady

\* ------------------------------------------------------------------------
\* Actions
\* ------------------------------------------------------------------------
\* the connection after the handler sent resp and returned
\* the handler returning without sending the response
Responded_silent(started, resp) == [started EXCEPT !.pc = "done", !.resp = resp]
Responded(started, resp) == [started EXCEPT !.pc = "done", !.responses = 1, !.resp = resp]
\* the connection after the handler answered from the cache entry
RespondedFromCache(started, cachedResults, response) ==
  [started EXCEPT !.pc = "done", !.responses = 1, !.resp = response,
                  !.combined = cachedResults.combined_results,
                  !.cacheRead = TRUE,
                  !.tracked = trackSearch(Len(response.body.data), TRUE)]

\* app.get('/api/search') up to its first return or its first statement: a
\* client sends request q on connection c.  Each \E binds a const of the
\* handler to its value.
Search(c, q) ==
  /\ q \in pool
  /\ sent < MaxRequests
  /\ conn[c].pc \in {"idle", "done"}
  /\ sent' = sent + 1
  /\ \E started \in {[idleConn EXCEPT !.q = q, !.startTime = now]},
        filterValidation \in {validateFilters(advancedFilterParams(q), now)} :
       IF ~filterValidation.isValid
       THEN /\ conn' = [conn EXCEPT ![c] = Responded(started, invalidResponse(filterValidation))]
            /\ UNCHANGED <<searchCache, analytics>>
       ELSE IF noCriteria(q)
       THEN /\ conn' = [conn EXCEPT ![c] = Responded(started, criteriaResponse)]
            /\ UNCHANGED <<searchCache, analytics>>
       ELSE IF ~useCache(q)
       THEN /\ conn' = [conn EXCEPT ![c] =
                          [started EXCEPT !.pc = "lostScan", !.scans = <<"lost_phones">>]]
            /\ UNCHANGED <<searchCache, analytics>>
       ELSE \E cachedResults \in {getCachedResults(searchCache, optimizeSearchParams(q), now)} :
              /\ searchCache' = cachedResults.cache
              /\ IF cachedResults.hit
                 THEN /\ conn' = [conn EXCEPT ![c] =
                                    AfterTrackSearch(
                                      RespondedFromCache(started, cachedResults.value,
                                                         cacheHitResponse(q, cachedResults.value,
                                                                          started.startTime, now)),
                                      trackSearchThrows(analytics))]
                      /\ analytics' = trackSearchOn(analytics)
                 ELSE /\ conn' = [conn EXCEPT ![c] =
                                    [started EXCEPT !.pc = "lostScan",
                                                    !.scans = <<"lost_phones">>,
                                                    !.cacheRead = TRUE]]
                      /\ UNCHANGED analytics
  /\ UNCHANGED <<call, lost_phones, found_phones, stored, now, pool, broken, report>>

\* whether db.all fails on a statement: it does when the statement names a
\* missing column or when its table is broken
StatementFails(sql, columns) == NoSuchColumn(sql, columns) \/ broken = sql.from

\* the callback of db.all(sql, params, ..) on lost_phones; err tells whether
\* the statement failed
LostScanCallback(c, err) ==
  /\ conn[c].pc = "lostScan"
  /\ \E q \in {conn[c].q} : \E sql \in {lostSql(q)} :
       /\ err = StatementFails(sql, LostColumns)
       /\ IF err
          THEN conn' = [conn EXCEPT ![c].pc = "done", ![c].responses = @ + 1,
                                    ![c].resp = lostErrorResponse]
          ELSE conn' = [conn EXCEPT ![c].pc = "foundScan",
                                    ![c].results = lostResults(q, ScanRows(lost_phones, sql)),
                                    ![c].scans = Append(@, "found_phones")]
  /\ UNCHANGED <<call, lost_phones, found_phones, searchCache, stored, now, pool, broken, sent,
                  report, analytics>>

\* the history of cacheResults after a call under cacheKey
StoredAfter(cacheKey, value, clock) ==
  The({[k \in DOMAIN stored \cup {key} |->
          IF k = key THEN [value |-> value, at |-> clock] ELSE stored[k]] :
         key \in {cacheKey}})

\* the second callback without error: the merged results are cached and sent
SendFresh(c, q, combinedResults) ==
  /\ conn' = [conn EXCEPT ![c] =
                AfterTrackSearch(
                  [conn[c] EXCEPT
                     !.pc = "done", !.responses = @ + 1,
                     !.combined = combinedResults,
                     !.cacheWrote = useCache(q),
                     !.tracked = trackSearch(Len(combinedResults), FALSE),
                     !.resp = freshResponse(q, combinedResults, conn[c].startTime, now)],
                  trackSearchThrows(analytics))]
  /\ analytics' = trackSearchOn(analytics)
  /\ IF useCache(q)
     THEN \E optimizedParams \in {optimizeSearchParams(q)},
             cacheData \in {cacheDataOf(q, combinedResults)} :
            /\ searchCache' = cacheResults(searchCache, optimizedParams, cacheData, now)
            /\ stored' = StoredAfter(generateCacheKey(optimizedParams), cacheData, now)
     ELSE UNCHANGED <<searchCache, stored>>

\* the callback of db.all(foundSql, params, ..) on found_phones
FoundScanCallback(c, err) ==
  /\ conn[c].pc = "foundScan"
  /\ \E q \in {conn[c].q} : \E sql \in {foundSql(q)} :
       /\ err = StatementFails(sql, FoundColumns)
       /\ IF err
          THEN /\ conn' = [conn EXCEPT ![c].pc = "done", ![c].responses = @ + 1,
                                       ![c].resp = partialResponse(q, conn[c].results)]
               /\ UNCHANGED <<searchCache, stored, analytics>>
          ELSE \E combinedResults \in
                    {combinedResultsOf(q, conn[c].results,
                                       foundResultsOf(q, ScanRows(found_phones, sql)))} :
                 SendFresh(c, q, combinedResults)
  /\ UNCHANGED <<call, lost_phones, found_phones, now, pool, broken, sent, report>>

\* time passes
Tick ==
  /\ now + TickStep <= MaxTime
  /\ now' = now + TickStep
  /\ UNCHANGED <<call, lost_phones, found_phones, searchCache, stored, conn, pool, broken, sent,
                  report, analytics>>

\* NodeCache's periodic check (checkperiod) deletes the expired entries
CheckData ==
  /\ \E k \in DOMAIN searchCache : Expired(searchCache[k], now)
  /\ searchCache' = [k \in {j \in DOMAIN searchCache : ~Expired(searchCache[j], now)} |->
                       searchCache[k]]
  /\ UNCHANGED <<call, lost_phones, found_phones, stored, now, conn, pool, broken, sent, report,
                  analytics>>

Next ==
  \/ \E c \in Clients, q \in AllRequests : Search(c, q)
  \/ \E c \in Clients, err \in BOOLEAN : LostScanCallback(c, err)
  \/ \E c \in Clients, err \in BOOLEAN : FoundScanCallback(c, err)
  \/ Tick
  \/ CheckData

Spec == Init /\ [][Next]_vars

\* sqlite3 calls the callback of every db.all: a pending callback of a
\* connection is not put off for ever
CallbacksFire ==
  \A c \in Clients :
    /\ WF_vars(\E err \in BOOLEAN : LostScanCallback(c, err))
    /\ WF_vars(\E err \in BOOLEAN : FoundScanCallback(c, err))
\* the runs in which every pending callback fires: the same server over
\* the newest row of each table, readable or failing, the clients sending
\* an exact-match query and a request the handler rejects
FairInit ==
  /\ lost_phones = SubSeq(LostRows, 1, 1)
  /\ found_phones = SubSeq(FoundRows, 1, 1)
  /\ searchCache = <<>>
  /\ stored = <<>>
  /\ now = 0
  /\ conn = [c \in Clients |-> idleConn]
  /\ pool \in FairPools
  /\ broken \in {"none", "lost_phones", "found_phones"}
  /\ sent = 0
  /\ report = noReport
  /\ call = noCall
  /\ analytics = analyticsReady
FairSpec == FairInit /\ [][Next]_vars /\ CallbacksFire

\* the runs about the numeric parameters of a request: the same server and
\* tables, the clients choosing from a pool of ParamPools, no failing table
ParamInit ==
  /\ lost_phones = LostRows
  /\ found_phones = FoundRows
  /\ searchCache = <<>>
  /\ stored = <<>>
  /\ now = 0
  /\ conn = [c \in Clients |-> idleConn]
  /\ pool \in ParamPools
  /\ broken = "none"
  /\ sent = 0
  /\ report = noReport
  /\ call = noCall
  /\ analytics = analyticsReady

ParamSpec == ParamInit /\ [][Next]_vars

\* the runs about phone numbers: the same server over one of PhoneTables
PhoneInit ==
  /\ \E tables \in PhoneTables :
       /\ lost_phones = tables.lost
       /\ found_phones = tables.found
  /\ searchCache = <<>>
  /\ stored = <<>>
  /\ now = 0
  /\ conn = [c \in Clients |-> idleConn]
  /\ pool \in PhonePools
  /\ broken = "none"
  /\ sent = 0
  /\ report = noReport
  /\ call = noCall
  /\ analytics = analyticsReady

PhoneSpec == PhoneInit /\ [][Next]_vars

\* the runs about pagination: the same server and tables, the clients
\* choosing from a pool of PagingPools
PagingInit ==
  /\ lost_phones = LostRows
  /\ found_phones = FoundRows
  /\ searchCache = <<>>
  /\ stored = <<>>
  /\ now = 0
  /\ conn = [c \in Clients |-> idleConn]
  /\ pool \in PagingPools
  /\ broken = "none"
  /\ sent = 0
  /\ report = noReport
  /\ call = noCall
  /\ analytics = analyticsReady

PagingSpec == PagingInit /\ [][Next]_vars

\* the callback of the last CREATE INDEX of initializeAnalyticsTables
AnalyticsReady ==
  /\ ~analytics.isInitialized
  /\ analytics' = [analytics EXCEPT !.isInitialized = TRUE]
  /\ UNCHANGED <<call, lost_phones, found_phones, searchCache, stored, now, conn, pool, broken,
                  sent, report>>

\* a timer of trackSearch expires: () => this.trackSearch(searchData)
RetryTimer ==
  /\ analytics.timers > 0
  /\ analytics' = trackSearchOn([analytics EXCEPT !.timers = @ - 1])
  /\ UNCHANGED <<call, lost_phones, found_phones, searchCache, stored, now, conn, pool, broken,
                  sent, report>>

\* the runs about analytics: the same server and tables, the analytics
\* tables ready or not yet, their statements succeeding or failing
AnalyticsInit ==
  /\ lost_phones = LostRows
  /\ found_phones = FoundRows
  /\ searchCache = <<>>
  /\ stored = <<>>
  /\ now = 0
  /\ conn = [c \in Clients |-> idleConn]
  /\ pool = {qAb, qLimit1}
  /\ broken = "none"
  /\ sent = 0
  /\ report = noReport
  /\ call = noCall
  /\ analytics \in {[analyticsReady EXCEPT !.isInitialized = ready, !.failing = failing] :
                      ready \in BOOLEAN, failing \in BOOLEAN}

AnalyticsNext ==
  \/ Next
  \/ AnalyticsReady
  \/ RetryTimer

AnalyticsSpec == AnalyticsInit /\ [][AnalyticsNext]_vars

\* ------------------------------------------------------------------------
\* server.js: POST /api/lost-phones and POST /api/found-phones.  A body is
\* req.body: a text field is a string or undefined, latitude and longitude
\* are numbers of tenths of a degree or NullNum when the body has none; the
\* fields the handlers only pass on (brand, model, color, ...) are left out
\* and stored as NULL.
\* ------------------------------------------------------------------------
\* validator.isEmail(email) on the strings of the model: one @ after a local
\* part, and a domain with a dot before a last label of two characters or more
IsEmail(email) ==
  \E at \in 2..(Len(email) - 1) :
    /\ email[at] = "@"
    /\ \A i \in 1..Len(email) : email[i] = "@" => i = at
    /\ \E dot \in (at + 2)..(Len(email) - 2) : email[dot] = "."
\* validatePhoneData: the error of its 400 response, "" when it calls next()
validatePhoneData(body) ==
  IF ~Truthy(body.email) \/ ~IsEmail(body.email)
  THEN "Valid email is required"
  ELSE IF ~Truthy(body.contact_name) \/ Len(trim(body.contact_name)) < 2
  THEN "Contact name is required (minimum 2 characters)"
  ELSE ""
\* the value sqlite3 binds for a parameter: NULL for undefined
Bound(v) == IF v = undefined THEN NULL ELSE v
sPhilippines == <<"P", "h", "i", "l", "i", "p", "p", "i", "n", "e", "s">>
\* CURRENT_TIMESTAMP at the start of the run
sRunStart == <<"2", "0", "2", "6", "-", "1", "1", "-", "0", "6", " ", "0", "0", ":", "0", "0", ":", "0", "0">>
\* the row INSERT INTO lost_phones stores for body
LostRowOf(body, id) ==
  [id |-> id, phone_number |-> Bound(body.phone_number), imei |-> Bound(body.imei),
   email |-> Bound(body.email), brand |-> NULL, model |-> NULL, description |-> NULL,
   location_lost |-> NULL,
   country |-> IF Truthy(body.country) THEN body.country ELSE sPhilippines,
   region_state |-> NULL, city |-> NULL,
   latitude |-> body.latitude, longitude |-> body.longitude,
   contact_name |-> Bound(body.contact_name), contact_phone |-> Bound(body.contact_phone),
   status |-> sLost, created_at |-> sRunStart]
\* the row INSERT INTO found_phones stores for body
FoundRowOf(body, id) ==
  [id |-> id, phone_number |-> Bound(body.phone_number), imei |-> Bound(body.imei),
   email |-> Bound(body.email), brand |-> NULL, model |-> NULL, description |-> NULL,
   location_found |-> NULL,
   country |-> IF Truthy(body.country) THEN body.country ELSE sPhilippines,
   region_state |-> NULL, city |-> NULL,
   latitude |-> body.latitude, longitude |-> body.longitude,
   finder_name |-> Bound(body.finder_name), finder_contact |-> Bound(body.finder_contact),
   created_at |-> sRunStart]
\* res.status(status).json({error})
reportError(status, error) == [status |-> status, body |-> [error |-> error]]
\* res.json({id: this.lastID, message})
reportStored(id, message) == [status |-> 200, body |-> [id |-> id, message |-> message]]

\* the bodies of the model
sEmailOk == <<"a", "@", "x", ".", "i", "o">>
ReportCoordinates == {<<NullNum, NullNum>>, <<10, 10>>, <<10, NullNum>>, <<950, 10>>}
LostBodies ==
  {[phone_number |-> phone, imei |-> undefined, email |-> email, country |-> undefined,
    contact_name |-> name, contact_phone |-> undefined,
    latitude |-> coordinates[1], longitude |-> coordinates[2]] :
     phone \in {undefined, sPhoneB}, email \in {undefined, sAb, sEmailOk},
     name \in {undefined, <<"A", " ">>, <<"A", "l">>}, coordinates \in ReportCoordinates}
FoundBodies ==
  {[phone_number |-> phone, imei |-> undefined, email |-> undefined, country |-> undefined,
    finder_name |-> name, finder_contact |-> contact,
    latitude |-> coordinates[1], longitude |-> coordinates[2]] :
     phone \in {undefined, sPhoneB}, name \in {undefined, <<"F", "e">>},
     contact \in {undefined, <<>>, <<"1", "2", "3">>}, coordinates \in ReportCoordinates}

\* app.post('/api/lost-phones', validatePhoneData, ...) with its db.run
\* callback
SubmitLost(body) ==
  /\ sent < MaxReports
  /\ sent' = sent + 1
  /\ \E error \in {validatePhoneData(body)} :
       IF error # ""
       THEN /\ report' = reportError(400, error)
            /\ UNCHANGED lost_phones
       ELSE IF broken = "lost_phones"
       THEN /\ report' = reportError(500, "SQLITE_ERROR")
            /\ UNCHANGED lost_phones
       ELSE /\ lost_phones' = Append(lost_phones, LostRowOf(body, Len(lost_phones) + 1))
            /\ report' = reportStored(Len(lost_phones) + 1, "Lost phone reported successfully")
  /\ UNCHANGED <<call, found_phones, searchCache, stored, now, conn, pool, broken,
                  analytics>>

\* app.post('/api/found-phones', ...) with its db.run callback
SubmitFound(body) ==
  /\ sent < MaxReports
  /\ sent' = sent + 1
  /\ IF ~Truthy(body.finder_name) \/ ~Truthy(body.finder_contact)
     THEN /\ report' = reportError(400, "Finder name and contact are required")
          /\ UNCHANGED found_phones
     ELSE IF broken = "found_phones"
     THEN /\ report' = reportError(500, "SQLITE_ERROR")
          /\ UNCHANGED found_phones
     ELSE /\ found_phones' = Append(found_phones, FoundRowOf(body, Len(found_phones) + 1))
          /\ report' = reportStored(Len(found_phones) + 1, "Found phone reported successfully")
  /\ UNCHANGED <<call, lost_phones, searchCache, stored, now, conn, pool, broken,
                  analytics>>

\* the runs about reports: the tables start empty
ReportInit ==
  /\ lost_phones = <<>>
  /\ found_phones = <<>>
  /\ searchCache = <<>>
  /\ stored = <<>>
  /\ now = 0
  /\ conn = [c \in Clients |-> idleConn]
  /\ pool = {}
  /\ broken \in {"none", "lost_phones", "found_phones"}
  /\ sent = 0
  /\ report = noReport
  /\ call = noCall
  /\ analytics = analyticsReady

ReportNext ==
  \/ \E body \in LostBodies : SubmitLost(body)
  \/ \E body \in FoundBodies : SubmitFound(body)

ReportSpec == ReportInit /\ [][ReportNext]_vars

\* ------------------------------------------------------------------------
\* The functions the modules export, called on their own: call.args are the
\* arguments of one call and call.result is what it returned
\* ------------------------------------------------------------------------
\* the server at rest while a function is called on its own
ServerAtRest ==
  /\ lost_phones = <<>>
  /\ found_phones = <<>>
  /\ searchCache = <<>>
  /\ stored = <<>>
  /\ now = 0
  /\ conn = [c \in Clients |-> idleConn]
  /\ pool = {}
  /\ broken = "none"
  /\ sent = 0
  /\ report = noReport
  /\ analytics = analyticsReady
\* a call of function fn that has not returned yet
Calling(fn, args) == [fn |-> fn, args |-> args, returned |-> FALSE, result |-> 0]
\* call returns result
Return(result) ==
  /\ ~call.returned
  /\ call' = [call EXCEPT !.returned = TRUE, !.result = result]
  /\ UNCHANGED <<lost_phones, found_phones, searchCache, stored, now, conn, pool, broken,
                  sent, report, analytics>>

\* the longest string a call is given
MaxLen == 3
\* the strings of up to n characters of alphabet
StringsOver(alphabet, n) == UNION {[1..k -> alphabet] : k \in 0..n}

\* query-optimizer.js: calculateSimilarity(str1, str2) on two strings
SimilarityInit ==
  /\ ServerAtRest
  /\ call \in {Calling("calculateSimilarity", <<a, b>>) :
                 a \in StringsOver({"a", "b", "A"}, MaxLen),
                 b \in StringsOver({"a", "b", "A"}, MaxLen)}
CallCalculateSimilarity ==
  /\ call.fn = "calculateSimilarity"
  /\ Return(calculateSimilarity(call.args[1], call.args[2]))
SimilaritySpec == SimilarityInit /\ [][CallCalculateSimilarity]_vars

\* the phone numbers a call is given: a local number of seven or of six
\* digits, written with or without a country code and an extension
LocalNumbers == {<<"5", "5", "5", "1", "2", "3", "4">>, <<"5", "5", "5", "-", "1", "2", "3">>}
CountryCodes == {<<>>, <<"+", "1", " ">>, <<"4", "4">>}
Extensions == {<<>>, <<"9">>, <<" ", "x", "9", "8", "7">>}
PhoneNumbers == {cc \o n \o x : cc \in CountryCodes, n \in LocalNumbers, x \in Extensions}
PhoneThresholds == {70, 85, 100}

\* query-optimizer.js: isPhoneSimilar(phone1, phone2, threshold)
PhoneSimilarInit ==
  /\ ServerAtRest
  /\ call \in {Calling("isPhoneSimilar", <<a, b, t>>) :
                 a \in PhoneNumbers, b \in PhoneNumbers, t \in PhoneThresholds}
CallIsPhoneSimilar ==
  /\ call.fn = "isPhoneSimilar"
  /\ Return(isPhoneSimilar(call.args[1], call.args[2], call.args[3]))
PhoneSimilarSpec == PhoneSimilarInit /\ [][CallIsPhoneSimilar]_vars

\* the positions of the records a call is given, <<latitude, longitude>>:
\* none, on the equator, on the prime meridian, on both, elsewhere, without
\* a longitude, and beyond the pole
GeoPoints == {<<NullNum, NullNum>>, <<0, 10>>, <<10, 0>>, <<0, 0>>, <<10, 10>>, <<11, 10>>,
              <<10, NullNum>>, <<950, 10>>}
GeoCentres == {<<10, 10>>, <<0, 10>>, <<10, 0>>, <<0, 0>>}
\* 10 km, the default, and 150 km, in tenths of a kilometre
GeoRadii == {100, 1500}
GeoRecord(id, point) == [id |-> id, latitude |-> point[1], longitude |-> point[2]]

\* geospatial-search.js: filterByProximity(records, centerLat, centerLon,
\* radiusKm) on two records
ProximityInit ==
  /\ ServerAtRest
  /\ call \in {Calling("filterByProximity",
                        <<ToItems(<<GeoRecord(1, p1), GeoRecord(2, p2)>>), c[1], c[2], r>>) :
                 p1 \in GeoPoints, p2 \in GeoPoints, c \in GeoCentres, r \in GeoRadii}
CallFilterByProximity ==
  /\ call.fn = "filterByProximity"
  /\ Return(filterByProximity(call.args[1], call.args[2], call.args[3], call.args[4]))
ProximitySpec == ProximityInit /\ [][CallFilterByProximity]_vars

\* the status, deviceType and brand arrays a call is given: whitelisted
\* values, values outside the whitelist, both, and none
sBogus == <<"b", "o", "g", "u", "s">>
sNokia == <<"n", "o", "k", "i", "a">>
StatusArrays == {<<>>, <<sLost>>, <<sBogus>>, <<sBogus, sLost>>, <<sLost, sFound>>,
                 <<<<"L", "O", "S", "T">>>>}
DeviceTypeArrays == {<<>>, <<sSmartphone>>, <<sBogus>>, <<sTablet, sBogus>>}
BrandArrays == {<<>>, <<sApple>>, <<sNokia>>, <<sNokia, sSamsung>>}
\* filters with nothing but the three arrays
FiltersOf(status, deviceType, brand) ==
  [dateFrom |-> undefined, dateTo |-> undefined, timeRange |-> undefined,
   status |-> status, deviceType |-> deviceType, brand |-> brand,
   country |-> undefined, region |-> undefined, city |-> undefined,
   imei |-> undefined, phoneNumber |-> undefined]

\* advanced-filters.js: buildFilterConditions(filters)
FilterInit ==
  /\ ServerAtRest
  /\ call \in {Calling("buildFilterConditions", <<FiltersOf(st, dt, br)>>) :
                 st \in StatusArrays, dt \in DeviceTypeArrays, br \in BrandArrays}
CallBuildFilterConditions ==
  /\ call.fn = "buildFilterConditions"
  /\ Return(buildFilterConditions(call.args[1]))
FilterSpec == FilterInit /\ [][CallBuildFilterConditions]_vars

\* ------------------------------------------------------------------------
\* Properties
\* ------------------------------------------------------------------------
\* whether the statement of a category fails for request q in this run
LostFails(q) == StatementFails(lostSql(q), LostColumns)
FoundFails(q) == StatementFails(foundSql(q), FoundColumns)
\* the merged result set both statements of request q give on the tables
FreshMerged(q) ==
  combinedResultsOf(q, lostResults(q, ScanRows(lost_phones, lostSql(q))),
                    foundResultsOf(q, ScanRows(found_phones, foundSql(q))))
\* the key the handler derives for request q
KeyOf(q) == generateCacheKey(optimizeSearchParams(q))
\* the connections that have received a request
Started == {c \in Clients : conn[c].pc # "idle"}
\* the rows of a list of items
RowsOf(items) == [i \in 1..Len(items) |-> items[i].rec]
\* the items a success response carries, whatever its shape
ResponseItems(body) ==
  IF "data" \in DOMAIN body THEN body.data ELSE body.lost_phones \o body.found_phones

\* C1: a request served from the cache receives the merged result set a
\* fresh scan with its own parameters would produce (the cache key tells
\* apart every parameter that affects the result content)
C1_CacheHitEqualsFreshScan ==
  \A c \in Started :
    conn[c].resp.kind = "hit" => conn[c].combined = FreshMerged(conn[c].q)

\* C2: a request whose filter validation finds a violation ends with a
\* client error that lists every violation found, issues no scan and
\* neither reads nor writes the cache
C2_ValidationErrorListsEveryViolation ==
  \A c \in Started :
    LET filterValidation ==
          validateFilters(advancedFilterParams(conn[c].q), conn[c].startTime)
    IN ~filterValidation.isValid =>
         /\ conn[c].pc = "done"
         /\ conn[c].resp.status = 400
         /\ conn[c].resp.body.details = filterValidation.errors
         /\ conn[c].scans = <<>>
         /\ ~conn[c].cacheRead /\ ~conn[c].cacheWrote
\* a request with two violations has been answered
C2_Witness ==
  \E c \in Started :
    /\ Len(validateFilters(advancedFilterParams(conn[c].q), conn[c].startTime).errors) = 2
    /\ conn[c].pc = "done" /\ conn[c].resp.status = 400

\* a parameter that is absent or empty
Absent(v) == v = undefined \/ v = <<>>
\* request q has no query text, no country/region/city, not both lat and
\* lon, and no non-empty advanced filter value
LacksCriteria(q) ==
  /\ Absent(q.query) /\ Absent(q.country) /\ Absent(q.region) /\ Absent(q.city)
  /\ Absent(q.lat) \/ Absent(q.lon)
  /\ \A f \in {"dateFrom", "dateTo", "timeRange", "status", "deviceType", "brand",
               "imei", "phoneNumber"} : Absent(q[f])
\* C3: a request that passes validation is rejected with the
\* criteria-required error, before any cache lookup and any scan, if and
\* only if it lacks every search criterion
C3_CriteriaErrorIffNoCriteria ==
  \A c \in Started :
    validateFilters(advancedFilterParams(conn[c].q), conn[c].startTime).isValid =>
      /\ LacksCriteria(conn[c].q) <=> conn[c].resp = criteriaResponse
      /\ LacksCriteria(conn[c].q) =>
           /\ conn[c].pc = "done" /\ conn[c].scans = <<>>
           /\ ~conn[c].cacheRead /\ ~conn[c].cacheWrote
\* a request without criteria has been rejected while the cache holds an
\* unexpired entry under its key
C3_Witness ==
  \E c \in Started :
    /\ LacksCriteria(conn[c].q) /\ conn[c].resp = criteriaResponse
    /\ CacheHas(searchCache, KeyOf(conn[c].q), now)

\* C4: a request that finds an unexpired entry issues no scan, its data is a
\* page of the cached merged results and it reports from_cache = true; every
\* response produced from a scan reports from_cache = false
C4_FromCacheFlag ==
  \A c \in Started :
    /\ conn[c].resp.kind = "hit" =>
         /\ conn[c].scans = <<>>
         /\ conn[c].resp.body.data =
              paginateResults(conn[c].combined, validPagination(conn[c].q).page,
                              validPagination(conn[c].q).limit).data
         /\ conn[c].resp.body.search_info.performance.from_cache = TRUE
    /\ conn[c].resp.status = 200 /\ conn[c].scans # <<>> =>
         /\ "performance" \in DOMAIN conn[c].resp.body.search_info
         /\ conn[c].resp.body.search_info.performance.from_cache = FALSE

\* C5: when the lost-phones statement fails the request ends with a server
\* error and the found-phones statement is never issued; when only the
\* found-phones statement fails the request ends with a success response
\* that carries exactly the post-filtered lost results; no statement is
\* issued twice
C5_ScanFailures ==
  \A c \in Started :
    LET q == conn[c].q IN
    /\ Len(conn[c].scans) = Cardinality(Range(conn[c].scans))
    /\ conn[c].pc = "done" /\ conn[c].scans # <<>> /\ LostFails(q) =>
         /\ conn[c].resp.status = 500
         /\ conn[c].scans = <<"lost_phones">>
    /\ conn[c].pc = "done" /\ conn[c].scans # <<>> /\ ~LostFails(q) /\ FoundFails(q) =>
         /\ conn[c].resp.status = 200
         /\ conn[c].scans = <<"lost_phones", "found_phones">>
         /\ RowsOf(ResponseItems(conn[c].resp.body)) =
              RowsOf(lostResults(q, ScanRows(lost_phones, lostSql(q))))
\* one request has ended on the failure of the lost-phones statement and
\* another on the failure of the found-phones statement, with lost results
C5_Witness ==
  \E c1, c2 \in Started :
    /\ conn[c1].pc = "done" /\ conn[c1].scans # <<>> /\ LostFails(conn[c1].q)
    /\ conn[c2].pc = "done" /\ conn[c2].scans # <<>>
    /\ ~LostFails(conn[c2].q) /\ FoundFails(conn[c2].q)
    /\ Len(ResponseItems(conn[c2].resp.body)) > 0

\* C6: every success response has the shape {data, pagination, search_info},
\* search_info carrying the performance metrics and filter_summary, and every
\* item of data is tagged with its source
C6_ResponseShape ==
  \A c \in Started :
    conn[c].resp.status = 200 =>
      /\ DOMAIN conn[c].resp.body = {"data", "pagination", "search_info"}
      /\ {"performance", "filter_summary"} \subseteq DOMAIN conn[c].resp.body.search_info
      /\ DOMAIN conn[c].resp.body.search_info.performance =
           {"execution_time_ms", "result_count", "from_cache"}
      /\ \A i \in 1..Len(conn[c].resp.body.data) :
           conn[c].resp.body.data[i].source \in {"lost_phones", "found_phones"}

\* the merged result set of request q when neither statement is cut short
AllMatching(q) ==
  combinedResultsOf(q,
    lostResults(q, ScanRows(lost_phones, [lostSql(q) EXCEPT !.limit = 0])),
    foundResultsOf(q, ScanRows(found_phones, [foundSql(q) EXCEPT !.limit = 0])))
\* the records of a list of items, each named by its category and id
RecordsOf(items) == {<<items[i].source, items[i].rec.id>> : i \in 1..Len(items)}
\* C7: the merged result set a fresh scan stores and paginates contains
\* every record of both categories that satisfies the predicate and the
\* post-filters of the request, whatever the page and the page size
C7_MergedResultNotTruncated ==
  \A c \in Started :
    conn[c].resp.kind = "fresh" =>
      RecordsOf(conn[c].combined) = RecordsOf(AllMatching(conn[c].q))

\* C8: a lookup of key K less than 600 s after a result was stored under K
\* returns what was stored; a lookup more than 600 s after is a miss and the
\* request scans
C8_RoundTripWithinTtl ==
  [][\A c \in Clients :
       (sent' = sent + 1 /\ conn'[c] # conn[c] /\ conn'[c].cacheRead
        /\ KeyOf(conn'[c].q) \in DOMAIN stored) =>
         LET entry == stored[KeyOf(conn'[c].q)] IN
         /\ now - entry.at < 600 =>
              /\ conn'[c].resp.kind = "hit"
              /\ conn'[c].combined = entry.value.combined_results
              /\ \A f \in DOMAIN entry.value.search_info :
                   f = "filter_summary" \/
                   conn'[c].resp.body.search_info[f] = entry.value.search_info[f]
         /\ now - entry.at > 600 =>
              /\ conn'[c].pc = "lostScan"
              /\ conn'[c].scans = <<"lost_phones">>]_vars
\* a request has looked its key up more than 600 s after a result was stored
\* under it, and scans
C8_Witness ==
  \E c \in Started :
    /\ conn[c].pc = "lostScan" /\ conn[c].cacheRead
    /\ KeyOf(conn[c].q) \in DOMAIN stored
    /\ conn[c].startTime - stored[KeyOf(conn[c].q)].at > 600

\* request q with the defaults of the handler in place of its absent
\* parameters
WithDefaults(q) ==
  [q EXCEPT !.fuzzy = Default(@, kTrue), !.threshold = Default(@, k70),
            !.phonetic = Default(@, kFalse), !.radius = Default(@, k10),
            !.page = Default(@, k1), !.limit = Default(@, k50)]
\* C9: two requests that differ only in leaving a parameter out or giving
\* it at its default value have the same cache key
C9_DefaultsShareKey ==
  \A c1, c2 \in Started :
    WithDefaults(conn[c1].q) = WithDefaults(conn[c2].q) =>
      KeyOf(conn[c1].q) = KeyOf(conn[c2].q)

\* the kinds of condition a predicate contains: "bbox", or the column of a
\* LIKE condition
RECURSIVE CondKinds(_)
CondKinds(cond) ==
  IF cond.op \in {"and", "or"}
  THEN UNION {CondKinds(cond.kids[i]) : i \in 1..Len(cond.kids)}
  ELSE IF cond.op = "bbox" THEN {"bbox"}
  ELSE IF cond.op = "like" THEN {cond.col}
  ELSE {}
PredicateKinds(where) == UNION {CondKinds(where[i]) : i \in 1..Len(where)}
\* C10: the predicate of a request with both lat and lon has the bounding
\* box and no country/region/city condition; any other predicate has the
\* supplied country/region/city conditions and no bounding box
C10_LocationXorBoundingBox ==
  \A c \in Started :
    conn[c].scans # <<>> =>
      LET q == conn[c].q
          kinds == PredicateKinds(lostSql(q).where)
          foundKinds == PredicateKinds(foundSql(q).where)
          location == {"country", "region_state", "city"}
      IN IF ~Absent(q.lat) /\ ~Absent(q.lon)
         THEN /\ "bbox" \in kinds /\ kinds \cap location = {}
              /\ "bbox" \in foundKinds /\ foundKinds \cap location = {}
         ELSE /\ "bbox" \notin kinds /\ "bbox" \notin foundKinds
              /\ ~Absent(q.country) => "country" \in kinds \cap foundKinds
              /\ ~Absent(q.region) => "region_state" \in kinds \cap foundKinds
              /\ ~Absent(q.city) => "city" \in kinds \cap foundKinds

\* whether an item carries a distance_km value
HasDistance(item) == item.distance_km # 0 - 1
\* C11: in a geospatial search every item of the merged result, lost or
\* found, carries a distance_km value and lies within the search radius of
\* the search center
C11_GeoItemsPassedProximity ==
  \A c \in Started :
    conn[c].resp.kind = "fresh" /\ useGeospatial(conn[c].q) =>
      \A i \in 1..Len(conn[c].combined) :
        /\ HasDistance(conn[c].combined[i])
        /\ extractCoordinates(conn[c].combined[i].rec).found
        /\ calculateDistance(parseFloat(conn[c].q.lat), parseFloat(conn[c].q.lon),
                             conn[c].combined[i].rec.latitude,
                             conn[c].combined[i].rec.longitude)
             <= searchRadius(conn[c].q) * 10000

\* whether a list of items is in the order of the merge: by distance,
\* ascending, in a geospatial search, and by creation time, descending,
\* otherwise
MergedInOrder(items, geo) ==
  \A i \in 1..(Len(items) - 1) :
    IF geo
    THEN /\ HasDistance(items[i]) /\ HasDistance(items[i + 1])
         /\ items[i].distance_km <= items[i + 1].distance_km
    ELSE DateOf(items[i].rec.created_at) >= DateOf(items[i + 1].rec.created_at)
\* C12: the merged result list is sorted, by distance in a geospatial search
\* and by creation time otherwise, whatever the mix of lost and found items
C12_MergedListSorted ==
  \A c \in Started :
    conn[c].resp.kind = "fresh" =>
      MergedInOrder(conn[c].combined, useGeospatial(conn[c].q))

\* the threshold and radius parts of the cache key of request q
NormalizedThreshold(q) == JsToStr(OrElse(optimizeSearchParams(q).threshold, Str(k70)))
NormalizedRadius(q) == JsToStr(OrElse(optimizeSearchParams(q).radius, Str(k10)))
\* C20: the similarity threshold the handler applies lies in [0,100] and the
\* radius it applies lies in [0.1,1000] km (1..10000 tenths), and both are
\* the normalized values the cache key is derived from
C20_AppliedParamsAreNormalized ==
  \A c \in Started :
    conn[c].resp.kind = "fresh" =>
      /\ similarityThreshold(conn[c].q) \in 0..100
      /\ conn[c].resp.body.search_info.threshold = similarityThreshold(conn[c].q)
      /\ IntToStr(similarityThreshold(conn[c].q)) = NormalizedThreshold(conn[c].q)
      /\ useGeospatial(conn[c].q) =>
           /\ searchRadius(conn[c].q) \in 1..10000
           /\ conn[c].resp.body.search_info.radius_km = searchRadius(conn[c].q)
           /\ TenthsToStr(searchRadius(conn[c].q)) = NormalizedRadius(conn[c].q)

\* the connections whose handler emitted an analytics event
Tracked == {c \in Started : conn[c].tracked.called}
\* C17: the analytics event of a search carries the response time reported
\* as execution_time_ms in the response's performance metrics and the
\* request's cache-hit flag, and its result count is one quantity for cache
\* hits and fresh scans alike: the length of the page or the length of the
\* merged result set
C17_AnalyticsEventFields ==
  /\ \A c \in Tracked :
       /\ conn[c].tracked.responseTime # undefined
       /\ conn[c].tracked.responseTime
            = conn[c].resp.body.search_info.performance.execution_time_ms
       /\ conn[c].tracked.cacheHit = (conn[c].resp.kind = "hit")
  /\ \/ \A c \in Tracked : conn[c].tracked.resultsCount = Len(conn[c].resp.body.data)
     \/ \A c \in Tracked : conn[c].tracked.resultsCount = Len(conn[c].combined)

\* the records of the two tables, each with its category
StoredRecords ==
  {[source |-> "lost_phones", rec |-> lost_phones[i]] : i \in 1..Len(lost_phones)}
  \cup {[source |-> "found_phones", rec |-> found_phones[i]] : i \in 1..Len(found_phones)}
\* whether the normalized phone number of row is the query / is a number of
\* the query's length one digit away from it
ExactPhone(row, query) == normalizePhoneNumber(row.phone_number) = query
OneDigitOff(row, query) ==
  /\ Len(normalizePhoneNumber(row.phone_number)) = Len(query)
  /\ Cardinality({i \in 1..Len(query) : normalizePhoneNumber(row.phone_number)[i] # query[i]}) = 1
\* the positions of a stored record in a list of items
PositionsOf(r, items) ==
  {i \in 1..Len(items) : items[i].source = r.source /\ items[i].rec = r.rec}
\* the connections with the response to a fuzzy phone-type search for a
\* 10-digit number
PhoneSearches ==
  {c \in Started : /\ conn[c].resp.kind = "fresh"
                   /\ conn[c].q.type = sPhone /\ useFuzzy(conn[c].q)
                   /\ conn[c].q.query = normalizePhoneNumber(conn[c].q.query)
                   /\ Len(conn[c].q.query) = 10}
C14_ExactBeforeNear ==
  \A c \in PhoneSearches :
    \A i, j \in 1..Len(conn[c].resp.body.data) :
      /\ ExactPhone(conn[c].resp.body.data[i].rec, conn[c].q.query)
      /\ ~ExactPhone(conn[c].resp.body.data[j].rec, conn[c].q.query)
      => i < j

\* the connections whose response carries a page of results
Paginated == {c \in Started : conn[c].resp.kind \in {"fresh", "hit"}}
\* the items of page number page of list, size items to the page
PageSlice(list, page, size) ==
  [i \in 1..Max(0, Min(size, Len(list) - (page - 1) * size)) |-> list[(page - 1) * size + i]]
\* whether pagination pg and page data describe one page of list
IsPageOf(pg, data, list) ==
  /\ pg.items_per_page \in 1..100
  /\ pg.total_items = Len(list)
  /\ pg.total_pages * pg.items_per_page >= Len(list)
  /\ (pg.total_pages - 1) * pg.items_per_page < Len(list)
  /\ IF Len(list) = 0 THEN pg.current_page = 1 /\ pg.total_pages = 0
     ELSE pg.current_page \in 1..pg.total_pages
  /\ data = PageSlice(list, pg.current_page, pg.items_per_page)
  /\ pg.has_next = (pg.current_page < pg.total_pages)
  /\ pg.has_previous = (pg.current_page > 1)
  /\ pg.next_page = (IF pg.current_page < pg.total_pages THEN pg.current_page + 1 ELSE 0)
  /\ pg.previous_page = (IF pg.current_page > 1 THEN pg.current_page - 1 ELSE 0)
\* C15: whatever page and page size a request asks for, the page size of the
\* response is in [1,100], its current page in [1,total_pages] (page 1 of 0
\* pages for an empty list), its data the contiguous slice of the merged list
\* for that page, and its has_next, has_previous, next_page and previous_page
\* agree with current_page and total_pages
C15_PaginationSlices ==
  \A c \in Paginated :
    IsPageOf(conn[c].resp.body.pagination, conn[c].resp.body.data, conn[c].combined)
\* a request for page 9 of pages of two was answered with the last page of
\* its list
C15_Witness ==
  \E c \in Paginated :
    /\ conn[c].q.page = <<"9">>
    /\ conn[c].resp.body.pagination.items_per_page = 2
    /\ conn[c].resp.body.pagination.current_page = conn[c].resp.body.pagination.total_pages
    /\ conn[c].resp.body.pagination.current_page > 1
    /\ Len(conn[c].resp.body.data) > 0

\* whether every entry of the cache is, whole, the value of the last
\* cacheResults under its key, and that value the merged result set and
\* metadata of one request of the run
WholeEntries(cache, writes) ==
  \A k \in DOMAIN cache :
    /\ k \in DOMAIN writes
    /\ cache[k].v = writes[k].value
    /\ \E q \in pool : /\ KeyOf(q) = k
                       /\ writes[k].value = cacheDataOf(q, FreshMerged(q))
\* C18: under any interleaving of requests, every cache entry is exactly what
\* one request computed and stored, and a request that overwrites the entry
\* another request stored under the same key stores the same value again: the
\* overwrite repeats a computation and changes no later response
C18_WholeEntriesBenignOverwrite ==
  [][/\ WholeEntries(searchCache', stored')
     /\ \A k \in DOMAIN stored :
          stored'[k] # stored[k] => stored'[k].value = stored[k].value]_vars

\* whether latitude and longitude are both absent or both present and in
\* range (tenths of a degree)
CoordinatesValid(row) ==
  \/ row.latitude = NullNum /\ row.longitude = NullNum
  \/ /\ row.latitude # NullNum /\ row.longitude # NullNum
     /\ row.latitude >= 0 - 900 /\ row.latitude <= 900
     /\ row.longitude >= 0 - 1800 /\ row.longitude <= 1800
\* whether a row has a non-empty phone number, IMEI or email
Identified(row) == Truthy(row.phone_number) \/ Truthy(row.imei) \/ Truthy(row.email)
\* C19: every stored record has a non-empty identifying field and a
\* non-empty reporter name or contact, and its coordinates are both absent
\* or both present and in range
C19_StoredRecordsValid ==
  /\ \A i \in 1..Len(lost_phones) :
       /\ Identified(lost_phones[i])
       /\ Truthy(lost_phones[i].contact_name)
       /\ CoordinatesValid(lost_phones[i])
  /\ \A i \in 1..Len(found_phones) :
       /\ Identified(found_phones[i])
       /\ Truthy(found_phones[i].finder_name) /\ Truthy(found_phones[i].finder_contact)
       /\ CoordinatesValid(found_phones[i])

\* the time at which the response of connection c was built
RespondedAt(c) ==
  conn[c].startTime + conn[c].resp.body.search_info.performance.execution_time_ms \div 1000
SuppliesValidPair(q) ==
  /\ Truthy(q.lat) /\ Truthy(q.lon)
  /\ ValidCoords(parseFloat(q.lat), parseFloat(q.lon))
\* the connections whose request passed the checks of the handler
Processed == {c \in Started : conn[c].resp.kind \notin {"invalid", "criteria"}}
\* C21: after normalization lat and lon are both present and in range or
\* both absent; a request without a valid pair is processed as a
\* non-geospatial search and its cache key holds no coordinate
C21_CoordinatesNormalized ==
  \A c \in Processed :
    /\ \/ SuppliesValidPair(optimizeSearchParams(conn[c].q))
       \/ /\ optimizeSearchParams(conn[c].q).lat = undefined
          /\ optimizeSearchParams(conn[c].q).lon = undefined
    /\ ~SuppliesValidPair(conn[c].q) =>
         /\ PredicateKinds(lostSql(conn[c].q).where) \cap {"bbox"} = {}
         /\ conn[c].resp.kind = "fresh" =>
              conn[c].resp.body.search_info.center_coordinates = <<>>
         /\ KeyOf(conn[c].q) = KeyOf([conn[c].q EXCEPT !.lat = undefined, !.lon = undefined])

\* the violations the filters of request q have at time clock: dateFrom
\* later than dateTo, dateFrom in the future, a status outside the whitelist
DateFromLater(q) ==
  /\ Truthy(q.dateFrom) /\ Truthy(q.dateTo)
  /\ DateOf(q.dateFrom) # NaN /\ DateOf(q.dateTo) # NaN
  /\ DateOf(q.dateFrom) > DateOf(q.dateTo)
DateFromInFuture(q, clock) ==
  Truthy(q.dateFrom) /\ DateOf(q.dateFrom) # NaN /\ DateOf(q.dateFrom) > clock
StatusOutsideWhitelist(q) ==
  /\ Truthy(q.status)
  /\ \E i \in 1..Len(split(q.status)) :
       toLowerCase(split(q.status)[i]) \notin {sLost, sFound, sReturned, sClaimed}
\* C22: validateFilters reports a violation exactly when dateFrom is later
\* than dateTo, or dateFrom is in the future (dateTo supplied or not), or a
\* supplied status is outside {lost, found, returned, claimed}
C22_ViolationExactly ==
  \A c \in Started :
    ~validateFilters(advancedFilterParams(conn[c].q), conn[c].startTime).isValid
      <=> \/ DateFromLater(conn[c].q)
          \/ DateFromInFuture(conn[c].q, conn[c].startTime)
          \/ StatusOutsideWhitelist(conn[c].q)

\* the minimum number of single-character insertions, deletions and
\* substitutions that turn string a into string b
RECURSIVE EditDistance(_, _)
EditDistance(a, b) ==
  IF Len(a) = 0 THEN Len(b)
  ELSE IF Len(b) = 0 THEN Len(a)
  ELSE IF Head(a) = Head(b) THEN EditDistance(Tail(a), Tail(b))
  ELSE 1 + Min3(EditDistance(Tail(a), Tail(b)), EditDistance(a, Tail(b)),
                EditDistance(Tail(a), b))
\* the calls of function fn that have returned
Returned(fn) == call.fn = fn /\ call.returned
\* C23: calculateSimilarity of two strings lies in [0, 100] and is
\* 100 * (maxLen - d) / maxLen for the minimum edit distance d of the
\* lower-cased strings, symmetrically; a string is 100 similar to itself,
\* two empty strings are 100 similar, an empty and a non-empty string 0
C23_SimilarityIsEditDistanceRatio ==
  Returned("calculateSimilarity") =>
    LET a == call.args[1]
        b == call.args[2]
        maxLen == Max(Len(a), Len(b))
    IN /\ call.result >= 0 /\ call.result <= 100 * Percent
       /\ maxLen > 0 =>
            call.result = ((maxLen - EditDistance(toLowerCase(a), toLowerCase(b)))
                           * 100 * Percent) \div maxLen
       /\ call.result = calculateSimilarity(b, a)
       /\ a = b => call.result = 100 * Percent
       /\ maxLen = 0 => call.result = 100 * Percent
       /\ (Len(a) = 0) # (Len(b) = 0) => call.result = 0

\* string short is what string long ends with
IsSuffix(short, long) ==
  Len(short) <= Len(long) /\ SubSeq(long, Len(long) - Len(short) + 1, Len(long)) = short
\* the shorter normalized number has seven digits or more and the longer
\* one ends with it
SuffixRule(norm1, norm2) ==
  /\ Min(Len(norm1), Len(norm2)) >= 7
  /\ IF Len(norm1) <= Len(norm2) THEN IsSuffix(norm1, norm2) ELSE IsSuffix(norm2, norm1)
\* C24: isPhoneSimilar(a, b, t) is true exactly when the normalized numbers
\* are equal, or the shorter has seven digits or more and is a suffix of the
\* longer, or their similarity is at least t; a shorter number found inside
\* the longer one but not at its end matches by similarity only
C24_PhoneSimilarExactly ==
  Returned("isPhoneSimilar") =>
    LET norm1 == normalizePhoneNumber(call.args[1])
        norm2 == normalizePhoneNumber(call.args[2])
    IN call.result <=>
         \/ norm1 = norm2
         \/ SuffixRule(norm1, norm2)
         \/ calculateSimilarity(norm1, norm2) >= call.args[3] * Percent

\* <<lat1, lat2, |lon2 - lon1|, d>>: the great-circle distance d between
\* two points, in hundred-thousandths of a kilometre, for the latitudes and
\* longitudes 0, 1 and 1.1 degrees (Earth radius 6371 km)
GreatCircleTable ==
  {
   <<0, 0, 0, 0>>, <<0, 0, 1, 1111950>>, <<0, 0, 10, 11119493>>, <<0, 0, 11, 12231442>>,
   <<0, 10, 0, 11119493>>, <<0, 10, 1, 11174947>>, <<0, 10, 10, 15724939>>,
   <<0, 10, 11, 16529855>>, <<0, 11, 0, 12231442>>, <<0, 11, 1, 12281875>>,
   <<0, 11, 10, 16529855>>, <<0, 11, 11, 17297340>>, <<10, 0, 0, 11119493>>,
   <<10, 0, 1, 11174947>>, <<10, 0, 10, 15724939>>, <<10, 0, 11, 16529855>>,
   <<10, 10, 0, 0>>, <<10, 10, 1, 1111780>>, <<10, 10, 10, 11117800>>,
   <<10, 10, 11, 12229579>>, <<10, 11, 0, 1111950>>, <<10, 11, 1, 1572402>>,
   <<10, 11, 10, 11173093>>, <<10, 11, 11, 12279835>>, <<11, 0, 0, 12231442>>,
   <<11, 0, 1, 12281875>>, <<11, 0, 10, 16529855>>, <<11, 0, 11, 17297340>>,
   <<11, 10, 0, 1111950>>, <<11, 10, 1, 1572402>>, <<11, 10, 10, 11173093>>,
   <<11, 10, 11, 12279835>>, <<11, 11, 0, 0>>, <<11, 11, 1, 1111745>>,
   <<11, 11, 10, 11117444>>, <<11, 11, 11, 12229188>>
  }
GreatCircle(lat1, lon1, lat2, lon2) ==
  (CHOOSE e \in GreatCircleTable :
     e[1] = lat1 /\ e[2] = lat2 /\ e[3] = Abs(lon2 - lon1))[4]
\* a record with both coordinates present and in their valid ranges
HasValidCoordinates(rec) ==
  /\ rec.latitude # NullNum /\ rec.longitude # NullNum
  /\ rec.latitude >= 0 - 900 /\ rec.latitude <= 900
  /\ rec.longitude >= 0 - 1800 /\ rec.longitude <= 1800
\* C25: filterByProximity returns, by ascending distance, exactly the
\* records with both coordinates present and valid whose great-circle
\* distance to the centre is at most the radius, also when a latitude or
\* longitude of a record or of the centre is 0
C25_ProximityExactlyWithinRadius ==
  Returned("filterByProximity") =>
    LET records == call.args[1]
        DistanceTo(rec) == GreatCircle(call.args[2], call.args[3], rec.latitude, rec.longitude)
        within == {i \in 1..Len(records) :
                     /\ HasValidCoordinates(records[i].rec)
                     /\ DistanceTo(records[i].rec) <= call.args[4] * 10000}
    IN /\ Len(call.result) = Cardinality(within)
       /\ {call.result[k].rec : k \in 1..Len(call.result)} = {records[i].rec : i \in within}
       /\ \A k \in 1..(Len(call.result) - 1) :
            DistanceTo(call.result[k].rec) <= DistanceTo(call.result[k + 1].rec)

\* the values of array that belong to whitelist, whatever their case
Whitelisted(array, whitelist) ==
  {array[i] : i \in {j \in 1..Len(array) : toLowerCase(array[j]) \in whitelist}}
\* the values the conditions conds compare column col with
RECURSIVE ValuesOn(_, _)
ValuesOn(cond, col) ==
  IF cond.op \in {"and", "or"}
  THEN UNION {ValuesOn(cond.kids[i], col) : i \in 1..Len(cond.kids)}
  ELSE IF cond.col # col THEN {}
  ELSE IF cond.op = "in" THEN {cond.arg[i] : i \in 1..Len(cond.arg)}
  ELSE {cond.arg}
\* records to try the conditions on
FilterRecords ==
  {[status |-> st, device_type |-> dt, brand |-> br] :
     st \in {sLost, sFound, NULL}, dt \in {sSmartphone, sTablet, NULL},
     br \in {sApple, <<"S", "a", "m", "s", "u", "n", "g">>, NULL}}
\* a record whose text holds one of values, in any case
HoldsOneOf(text, values) ==
  text # NULL /\ \E v \in values : includes(toLowerCase(text), toLowerCase(v))
\* C26: for status, device type and brand, buildFilterConditions constrains
\* with exactly the supplied values that are whitelisted; a value outside
\* the whitelist contributes nothing, and a dimension without a whitelisted
\* value admits every record
C26_WhitelistedValuesOnly ==
  Returned("buildFilterConditions") =>
    LET filters == call.args[1]
        statuses == Whitelisted(filters.status, {sLost, sFound, sReturned, sClaimed})
        types == Whitelisted(filters.deviceType, filterCategories.deviceType)
        brands == Whitelisted(filters.brand, filterCategories.brands)
        where == And(call.result)
    IN /\ ValuesOn(where, "status") = statuses
       /\ ValuesOn(where, "device_type") = types
       /\ ValuesOn(where, "brand") = brands
       /\ \A rec \in FilterRecords :
            EvalCond(where, rec) <=>
              /\ statuses = {} \/ rec.status \in statuses
              /\ types = {} \/ HoldsOneOf(rec.device_type, types)
              /\ brands = {} \/ HoldsOneOf(rec.brand, brands)
\* buildFilterConditions was given a status outside the whitelist beside a
\* whitelisted one, and brands of which none is whitelisted
C26_Witness ==
  /\ Returned("buildFilterConditions")
  /\ call.args[1].status = <<sBogus, sLost>>
  /\ call.args[1].brand = <<sNokia>>
  /\ call.args[1].deviceType = <<sTablet, sBogus>>
  /\ Len(call.result) = 3

\* this step adds an entry to the cache or replaces one
CacheWritten ==
  \E k \in DOMAIN searchCache' : k \notin DOMAIN searchCache \/ searchCache'[k] # searchCache[k]
\* request q turns caching off
CachingOff(q) == q.cache # undefined /\ q.cache # kTrue
\* in this step the request of connection c, which asked for caching and
\* missed the cache, completes its second scan after both succeeded, and
\* the entry written is the one under its key
CompletesBothScans(c) ==
  /\ conn[c].pc = "foundScan" /\ conn'[c].pc = "done"
  /\ conn'[c].resp.kind = "fresh"
  /\ ~CachingOff(conn[c].q) /\ conn[c].cacheRead
  /\ conn[c].scans = <<"lost_phones", "found_phones">>
  /\ \A k \in DOMAIN searchCache' :
       (k \notin DOMAIN searchCache \/ searchCache'[k] # searchCache[k]) => k = KeyOf(conn[c].q)
\* in this step connection c receives a validation error, the criteria
\* error, a response from the cache or the response of a failed scan, or
\* its request with caching turned off moves on
StepWithoutWrite(c) ==
  /\ conn'[c] # conn[c]
  /\ \/ conn'[c].resp.kind \in {"invalid", "criteria", "hit", "error", "partial"}
     \/ CachingOff(conn'[c].q)
\* C27: only a request with caching enabled that missed the cache and
\* completed both scans writes the cache; a request that fails validation,
\* lacks criteria, is served from the cache, has caching off (it does not
\* read the cache either) or meets a failed scan leaves the cache unchanged
C27_OnlyCompleteMissWritesCache ==
  [][/\ CacheWritten => \E c \in Clients : CompletesBothScans(c)
     /\ \A c \in Clients :
          StepWithoutWrite(c) =>
            /\ searchCache' = searchCache
            /\ CachingOff(conn'[c].q) => ~conn'[c].cacheRead /\ ~conn'[c].cacheWrote]_vars
\* one request wrote the cache, a later one was served from it, and the
\* entry is still the one written
C27_Witness ==
  \E c1, c2 \in Clients :
    /\ conn[c1].cacheWrote /\ conn[c1].resp.kind = "fresh"
    /\ conn[c2].resp.kind = "hit"
    /\ KeyOf(conn[c1].q) \in DOMAIN searchCache

\* the request of connection c waits for a callback of the record store
Pending(c) == conn[c].pc \in {"lostScan", "foundScan"}
\* the request of connection c has ended with one response
AnsweredOnce(c) == conn[c].pc = "done" /\ conn[c].responses = 1
\* a request that has ended has one response and one that has not has none
AnsweredOnceWhenDone ==
  \A c \in Clients :
    /\ conn[c].responses <= 1
    /\ conn[c].pc = "done" => conn[c].responses = 1 /\ conn[c].resp.kind # "none"
    /\ conn[c].pc # "done" => conn[c].responses = 0 /\ conn[c].resp.kind = "none"
\* C28: every search request ends with exactly one response on every
\* path: no request is sent two responses and, each record-store callback
\* firing eventually, none stays without a response
C28_ExactlyOneResponse ==
  /\ []AnsweredOnceWhenDone
  /\ \A c \in Clients : Pending(c) ~> AnsweredOnce(c)
\* the five other paths beside the witness of the found-scan failure: the
\* request of a connection went through both scans and the second failed
C28_Witness ==
  \E c \in Clients :
    /\ conn[c].pc = "done" /\ conn[c].responses = 1
    /\ conn[c].scans = <<"lost_phones", "found_phones">>
    /\ conn[c].resp.kind = "partial"

\* C29: for a general query, every record the search returns with
\* fuzzy=false is also returned by the same search with fuzzy=true at the
\* default threshold: enabling fuzzy matching never removes a result
C29_FuzzyNeverRemovesResult ==
  \A c1, c2 \in Started :
    /\ conn[c1].q.type = undefined /\ conn[c1].q.threshold = undefined
    /\ conn[c1].q.fuzzy = kFalse
    /\ conn[c2].q = [conn[c1].q EXCEPT !.fuzzy = kTrue]
    /\ conn[c1].resp.kind = "fresh" /\ conn[c2].resp.kind = "fresh"
    => \A i \in 1..Len(conn[c1].combined) :
         \E j \in 1..Len(conn[c2].combined) :
           /\ conn[c2].combined[j].rec = conn[c1].combined[i].rec
           /\ conn[c2].combined[j].source = conn[c1].combined[i].source

\* ------------------------------------------------------------------------
\* SearchAnalytics: the statements trackSearch issues on popular_searches
\* and search_performance.  Each update is a db.get whose callback issues a
\* db.run; the database runs the statements of several calls in any order
\* ------------------------------------------------------------------------
\* the searches tracked in one run
MaxTracked == 3
\* the query of searchData
TrackedQueries == {<<"a", "b">>, <<"A", "b", " ">>, <<>>}
\* new Date().toISOString().split('T')[0]
TodayDate == CutoffDate(sToday)
\* db.get(SELECT * FROM table WHERE column = key): what the callback
\* receives as row, <<r>> for the first row r and <<>> for undefined
GetRow(table, column, key) ==
  IF \E i \in 1..Len(table) : table[i][column] = key
  THEN <<table[CHOOSE i \in 1..Len(table) :
                 /\ table[i][column] = key
                 /\ \A j \in 1..(i - 1) : table[j][column] # key]>>
  ELSE <<>>
\* a statement of an update: pc is "select" until the db.get ran, "write"
\* until the db.run of its callback ran, then "done"; row is what the
\* db.get handed to the callback
selectIssued == [pc |-> "select", row |-> <<>>]
notIssued == [pc |-> "done", row |-> <<>>]
\* the analytics object with its two tables empty: updates lists, per call
\* of trackSearch, the statements of updatePopularSearches and
\* updateDailyMetrics, failed counts the statements the database rejected
trackingReady ==
  [isInitialized |-> TRUE, failing |-> FALSE, timers |-> 0, rows |-> 0, logged |-> 0,
   popular_searches |-> <<>>, search_performance |-> <<>>, updates |-> <<>>,
   failed |-> 0]
\* whether trackSearch calls updatePopularSearches
hasSearchTerm(query) == Len(trim(query)) > 0
\* trackSearch(searchData) on initialized tables: the INSERT into
\* search_analytics and the two db.get
TrackSearch ==
  /\ analytics.isInitialized
  /\ Len(analytics.updates) < MaxTracked
  /\ \E query \in TrackedQueries :
       analytics' =
         [analytics EXCEPT
            !.rows = @ + 1,
            !.updates = Append(@,
              [searchTerm |-> toLowerCase(trim(query)),
               today |-> TodayDate,
               popular |-> IF hasSearchTerm(query) THEN selectIssued ELSE notIssued,
               daily |-> selectIssued])]
  /\ UNCHANGED <<call, lost_phones, found_phones, searchCache, stored, now, conn, pool,
                  broken, sent, report>>
\* updatePopularSearches: the db.get runs and its callback receives row
PopularSelect(i) ==
  /\ analytics.updates[i].popular.pc = "select"
  /\ analytics' =
       [analytics EXCEPT
          !.updates[i].popular =
            [pc |-> "write",
             row |-> GetRow(analytics.popular_searches, "search_term",
                            analytics.updates[i].searchTerm)]]
  /\ UNCHANGED <<call, lost_phones, found_phones, searchCache, stored, now, conn, pool,
                  broken, sent, report>>
\* UPDATE popular_searches SET frequency = newFrequency WHERE search_term = ?
UpdatePopular(table, searchTerm, newFrequency) ==
  [k \in 1..Len(table) |->
     IF table[k].search_term = searchTerm
     THEN [table[k] EXCEPT !.frequency = newFrequency] ELSE table[k]]
\* updatePopularSearches: the db.run of the callback runs; search_term is
\* UNIQUE, so the INSERT of a term the table holds is rejected
PopularWrite(i) ==
  /\ analytics.updates[i].popular.pc = "write"
  /\ LET u == analytics.updates[i]
         row == u.popular.row
         held == \E k \in 1..Len(analytics.popular_searches) :
                   analytics.popular_searches[k].search_term = u.searchTerm
     IN analytics' =
          [analytics EXCEPT
             !.updates[i].popular.pc = "done",
             !.popular_searches =
               IF row # <<>> THEN UpdatePopular(@, u.searchTerm, row[1].frequency + 1)
               ELSE IF held THEN @
               ELSE Append(@, [search_term |-> u.searchTerm, frequency |-> 1]),
             !.failed = IF row = <<>> /\ held THEN @ + 1 ELSE @]
  /\ UNCHANGED <<call, lost_phones, found_phones, searchCache, stored, now, conn, pool,
                  broken, sent, report>>
\* updateDailyMetrics: the db.get runs and its callback receives row
DailySelect(i) ==
  /\ analytics.updates[i].daily.pc = "select"
  /\ analytics' =
       [analytics EXCEPT
          !.updates[i].daily =
            [pc |-> "write",
             row |-> GetRow(analytics.search_performance, "date",
                            analytics.updates[i].today)]]
  /\ UNCHANGED <<call, lost_phones, found_phones, searchCache, stored, now, conn, pool,
                  broken, sent, report>>
\* UPDATE search_performance SET total_searches = newTotalSearches WHERE date = ?
UpdateDaily(table, today, newTotalSearches) ==
  [k \in 1..Len(table) |->
     IF table[k].date = today
     THEN [table[k] EXCEPT !.total_searches = newTotalSearches] ELSE table[k]]
\* updateDailyMetrics: the db.run of the callback runs; date is not UNIQUE
DailyWrite(i) ==
  /\ analytics.updates[i].daily.pc = "write"
  /\ LET u == analytics.updates[i]
         row == u.daily.row
     IN analytics' =
          [analytics EXCEPT
             !.updates[i].daily.pc = "done",
             !.search_performance =
               IF row # <<>> THEN UpdateDaily(@, u.today, row[1].total_searches + 1)
               ELSE Append(@, [date |-> u.today, total_searches |-> 1])]
  /\ UNCHANGED <<call, lost_phones, found_phones, searchCache, stored, now, conn, pool,
                  broken, sent, report>>

TrackingInit ==
  /\ lost_phones = <<>>
  /\ found_phones = <<>>
  /\ searchCache = <<>>
  /\ stored = <<>>
  /\ now = 0
  /\ conn = [c \in Clients |-> idleConn]
  /\ pool = {}
  /\ broken = "none"
  /\ sent = 0
  /\ report = noReport
  /\ call = noCall
  /\ analytics = trackingReady

TrackingNext ==
  \/ TrackSearch
  \/ \E i \in 1..Len(analytics.updates) : PopularSelect(i)
  \/ \E i \in 1..Len(analytics.updates) : PopularWrite(i)
  \/ \E i \in 1..Len(analytics.updates) : DailySelect(i)
  \/ \E i \in 1..Len(analytics.updates) : DailyWrite(i)

TrackingSpec == TrackingInit /\ [][TrackingNext]_vars

\* every statement of every tracked search has run
AllUpdatesDone ==
  \A i \in 1..Len(analytics.updates) :
    analytics.updates[i].popular.pc = "done" /\ analytics.updates[i].daily.pc = "done"
\* the searches tracked with search term t
TrackedWith(t) == {i \in 1..Len(analytics.updates) : analytics.updates[i].searchTerm = t}
\* the rows of table whose column holds key
RowsWith(table, column, key) == {k \in 1..Len(table) : table[k][column] = key}

\* C30: once the statements of N tracked searches with the same non-empty
\* term have run, in any interleaving, popular_searches holds exactly one
\* row for the term and its frequency is N, and the day's total_searches in
\* search_performance is the number of searches tracked that day
C30_NoTrackedSearchLost ==
  AllUpdatesDone =>
    /\ \A i \in 1..Len(analytics.updates) :
         LET t == analytics.updates[i].searchTerm
             rows == RowsWith(analytics.popular_searches, "search_term", t)
         IN t # <<>> =>
              /\ Cardinality(rows) = 1
              /\ \A k \in rows :
                   analytics.popular_searches[k].frequency = Cardinality(TrackedWith(t))
    /\ Len(analytics.updates) > 0 =>
         LET days == RowsWith(analytics.search_performance, "date", TodayDate)
         IN /\ Cardinality(days) = 1
            /\ \A k \in days :
                 analytics.search_performance[k].total_searches = Len(analytics.updates)

====
